---- MODULE Spec2Model ----
(***************************************************************************)
(* Model of the Exynos external-interrupt (EINT) support of the Samsung    *)
(* pinctrl driver, drivers/pinctrl/samsung/pinctrl-exynos.c.               *)
(*                                                                         *)
(* A 32-bit register value is the set of its set bit positions, so that    *)
(* &, |, ~ and << are intersection, union, complement in 0..31 and a       *)
(* translation cut at bit 31.                                              *)
(***************************************************************************)
EXTENDS Integers, Sequences, FiniteSets, TLC

VARIABLES
    pin_banks,    \* d->ctrl->pin_banks: the bank table of the driver instance
    mmio,         \* the register block at d->virt_base: offset -> u32
    wake_mask,    \* exynos_eint_wake_mask
    irq_type,     \* irqd_get_trigger_type() of every line <<bank, pin>>
    irq_handler,  \* the flow handler of every line: "level" or "edge"
    mapped,       \* the lines <<bank, pin>> that have a virtual line mapped
    gpio_irq,     \* lines locked as interrupt in the GPIO ownership layer
    gpio_out,     \* lines the GPIO layer drives as outputs
    save,         \* bank->soc_priv of every bank (exynos_eint_gpio_save)
    muxed_data,   \* the banks of the muxed wakeup handler's context, in order
    suspended,    \* TRUE between a suspend and the matching resume
    trace,        \* what the most recent operation did, in order
    last,         \* the most recent operation: name, bank, pin, arg, ret
    nops,         \* number of operations performed so far
    of_node,      \* what the device tree says about the controller
    irq_domain,   \* the banks whose bank->irq_domain is set
    handlers,     \* the handlers bound to physical lines, with their data
    muxed_nr_banks, \* nr_banks of the muxed wakeup handler's context
    cpus,         \* what every processor is in the middle of, if anything
    slock,        \* bank->slock of every bank: the processor holding it, or -1
    dump_lock,    \* dump_lock of lib/dump_stack.c: the owning processor, or -1
    dump_cpu      \* per processor: interrupts enabled, and its _dump_stack calls

vars == <<pin_banks, mmio, wake_mask, irq_type, irq_handler, mapped,
          gpio_irq, gpio_out, save, muxed_data, suspended, trace, last, nops,
          of_node, irq_domain, handlers, muxed_nr_banks, cpus, slock,
          dump_lock, dump_cpu>>

-----------------------------------------------------------------------------
(* Bounds of the model *)

\* operations per behaviour of the chip-operation specification
MaxOps == 2
\* operations per behaviour of the resource (claim/release) specification
MaxResOps == 3
\* operations per behaviour of the wake-mask specification
MaxWakeOps == 2
\* operations per behaviour of the suspend/resume specification
MaxPmOps == 5
\* operations per behaviour of the dispatch specification
MaxIrqOps == 2
\* operations per behaviour of the two-processor specification
MaxConcOps == 2
\* probes of a device per behaviour of the re-initialisation specification
MaxProbes == 2
\* _dump_stack calls a processor is in at a time, one inside the other
MaxNest == 2
\* _dump_stack calls per behaviour
MaxDumps == 3
\* calls per behaviour of the filter-configurator specification
MaxFltOps == 1

-----------------------------------------------------------------------------
(* 32-bit values *)

Bits32 == 0..31

\* the u32 whose value is n (n below 2^31)
U32(n) == {i \in 0..30 : (n \div (2^i)) % 2 = 1}

BitAnd(a, b) == a \cap b
BitOr(a, b) == a \cup b
BitNot(a) == Bits32 \ a
Shl(a, n) == {i + n : i \in a} \cap Bits32
Shr(a, n) == {i - n : i \in a} \cap Bits32

\* the field of `width` bits at bit `shift`, as a number
RECURSIVE SumBits(_)
SumBits(s) == IF s = {} THEN 0
              ELSE LET i == CHOOSE x \in s : TRUE IN 2^i + SumBits(s \ {i})
Field(v, shift, width) == SumBits({i \in 0..(width - 1) : (i + shift) \in v})

-----------------------------------------------------------------------------
(* Constants of the kernel headers *)

IRQ_TYPE_NONE == 0
IRQ_TYPE_EDGE_RISING == 1
IRQ_TYPE_EDGE_FALLING == 2
IRQ_TYPE_EDGE_BOTH == 3
IRQ_TYPE_LEVEL_HIGH == 4
IRQ_TYPE_LEVEL_LOW == 8
IRQ_TYPE_LEVEL_MASK == 12

EINVAL == 22
EIO == 5
ENXIO == 6
ENOMEM == 12
ENODEV == 19

EXYNOS_GPIO_ECON_OFFSET == 1792      \* 0x700
EXYNOS_GPIO_EFLTCON_OFFSET == 2048   \* 0x800
EXYNOS_GPIO_EMASK_OFFSET == 2304     \* 0x900
EXYNOS_GPIO_EPEND_OFFSET == 2560     \* 0xA00
EXYNOS_SVC_OFFSET == 2824            \* 0xB08
EXYNOS_SVC_GROUP_SHIFT == 3
EXYNOS_SVC_GROUP_MASK == 31
EXYNOS_SVC_NUM_MASK == 7

EXYNOS_EINT_LEVEL_LOW == 0
EXYNOS_EINT_LEVEL_HIGH == 1
EXYNOS_EINT_EDGE_FALLING == 2
EXYNOS_EINT_EDGE_RISING == 3
EXYNOS_EINT_EDGE_BOTH == 4
EXYNOS_EINT_CON_MASK == 15
EXYNOS_EINT_CON_LEN == 4

EXYNOS_EINT_FUNC == 15
FUNC_INPUT == 0

EXYNOS_EINT_FLTCON_EN == 128         \* 1 << 7
EXYNOS_EINT_FLTCON_SEL == 64         \* 1 << 6
EXYNOS_EINT_FLTCON_WIDTH(x) == BitAnd(U32(x), U32(63))
EXYNOS_EINT_FLTCON_MASK == 255
EXYNOS_EINT_FLTCON_LEN == 8

-----------------------------------------------------------------------------
(* Register layout descriptors and bank tables *)

PINCFG_TYPE_FUNC == 0

\* bank type for non-alive type (DRV bit field: 2)
bank_type_0 == [fld_width  |-> <<4, 1, 2, 2, 2, 2>>,
                reg_offset |-> <<0, 4, 8, 12, 16, 20>>]

\* bank type for alive type (DRV bit field: 2)
bank_type_1 == [fld_width  |-> <<4, 1, 2, 2>>,
                reg_offset |-> <<0, 4, 8, 12>>]

\* bank type for non-alive type (DRV bit field: 3)
bank_type_4 == [fld_width  |-> <<4, 1, 2, 3, 2, 2>>,
                reg_offset |-> <<0, 4, 8, 12, 16, 20>>]

\* bank type for alive type (DRV bit field: 3)
bank_type_5 == [fld_width  |-> <<4, 1, 2, 3>>,
                reg_offset |-> <<0, 4, 8, 12>>]

EXYNOS_PIN_BANK_EINTN(t, pins, reg, id) ==
    [type |-> t, pctl_offset |-> reg, nr_pins |-> pins,
     eint_type |-> "NONE", eint_offset |-> 0, name |-> id]
EXYNOS_PIN_BANK_EINTG(t, pins, reg, id, offs) ==
    [type |-> t, pctl_offset |-> reg, nr_pins |-> pins,
     eint_type |-> "GPIO", eint_offset |-> offs, name |-> id]
EXYNOS_PIN_BANK_EINTW(t, pins, reg, id, offs) ==
    [type |-> t, pctl_offset |-> reg, nr_pins |-> pins,
     eint_type |-> "WKUP", eint_offset |-> offs, name |-> id]

\* a C array: indices 0 .. n-1
Array(seq) == [i \in 0..(Len(seq) - 1) |-> seq[i + 1]]

\* pin banks of exynos3250 pin-controller 1
exynos3250_pin_banks1 == Array(<<
    EXYNOS_PIN_BANK_EINTN(bank_type_0, 8, 288, "gpe0"),
    EXYNOS_PIN_BANK_EINTN(bank_type_0, 8, 320, "gpe1"),
    EXYNOS_PIN_BANK_EINTN(bank_type_0, 3, 384, "gpe2"),
    EXYNOS_PIN_BANK_EINTG(bank_type_0, 8, 64, "gpk0", 8),
    EXYNOS_PIN_BANK_EINTG(bank_type_0, 7, 96, "gpk1", 12),
    EXYNOS_PIN_BANK_EINTG(bank_type_0, 7, 128, "gpk2", 16),
    EXYNOS_PIN_BANK_EINTG(bank_type_0, 4, 192, "gpl0", 24),
    EXYNOS_PIN_BANK_EINTG(bank_type_0, 8, 608, "gpm0", 36),
    EXYNOS_PIN_BANK_EINTG(bank_type_0, 7, 640, "gpm1", 40),
    EXYNOS_PIN_BANK_EINTG(bank_type_0, 5, 672, "gpm2", 44),
    EXYNOS_PIN_BANK_EINTG(bank_type_0, 8, 704, "gpm3", 48),
    EXYNOS_PIN_BANK_EINTG(bank_type_0, 8, 736, "gpm4", 52),
    EXYNOS_PIN_BANK_EINTW(bank_type_0, 8, 3072, "gpx0", 0),
    EXYNOS_PIN_BANK_EINTW(bank_type_1, 8, 3104, "gpx1", 4),
    EXYNOS_PIN_BANK_EINTW(bank_type_1, 8, 3136, "gpx2", 8),
    EXYNOS_PIN_BANK_EINTW(bank_type_1, 8, 3168, "gpx3", 12) >>)

\* pin banks of exynos7880 pin-controller 0 (ALIVE)
\* pin banks of exynos7870 pin-controller 0 (ALIVE)
exynos7870_pin_banks0 == Array(<<
    EXYNOS_PIN_BANK_EINTW(bank_type_5, 6, 0, "etc0", 0),
    EXYNOS_PIN_BANK_EINTW(bank_type_5, 3, 32, "etc1", 0),
    EXYNOS_PIN_BANK_EINTW(bank_type_5, 8, 64, "gpa0", 0),
    EXYNOS_PIN_BANK_EINTW(bank_type_5, 8, 96, "gpa1", 4),
    EXYNOS_PIN_BANK_EINTW(bank_type_5, 8, 128, "gpa2", 8),
    EXYNOS_PIN_BANK_EINTW(bank_type_5, 2, 192, "gpq0", 0)>>)

exynos7880_pin_banks0 == Array(<<
    EXYNOS_PIN_BANK_EINTN(bank_type_5, 6, 0, "etc0"),
    EXYNOS_PIN_BANK_EINTN(bank_type_5, 3, 32, "etc1"),
    EXYNOS_PIN_BANK_EINTW(bank_type_5, 8, 64, "gpa0", 0),
    EXYNOS_PIN_BANK_EINTW(bank_type_5, 8, 96, "gpa1", 4),
    EXYNOS_PIN_BANK_EINTW(bank_type_5, 8, 128, "gpa2", 8),
    EXYNOS_PIN_BANK_EINTW(bank_type_5, 5, 160, "gpa3", 12),
    EXYNOS_PIN_BANK_EINTN(bank_type_5, 2, 192, "gpq0") >>)

\* pin banks of exynos7880 pin-controller 1 (CCORE)
exynos7880_pin_banks1 == Array(<<
    EXYNOS_PIN_BANK_EINTG(bank_type_4, 2, 0, "gpm0", 0) >>)

\* pin banks of exynos7880 pin-controller 2 (DISPAUD)
exynos7880_pin_banks2 == Array(<<
    EXYNOS_PIN_BANK_EINTG(bank_type_4, 4, 0, "gpz0", 0),
    EXYNOS_PIN_BANK_EINTG(bank_type_4, 6, 32, "gpz1", 4),
    EXYNOS_PIN_BANK_EINTG(bank_type_4, 4, 64, "gpz2", 8) >>)

\* pin banks of exynos7880 pin-controller 4 (FSYS)
exynos7880_pin_banks4 == Array(<<
    EXYNOS_PIN_BANK_EINTG(bank_type_4, 3, 0, "gpr0", 0),
    EXYNOS_PIN_BANK_EINTG(bank_type_4, 8, 32, "gpr1", 4),
    EXYNOS_PIN_BANK_EINTG(bank_type_4, 2, 64, "gpr2", 8),
    EXYNOS_PIN_BANK_EINTG(bank_type_4, 4, 96, "gpr3", 12),
    EXYNOS_PIN_BANK_EINTG(bank_type_4, 6, 128, "gpr4", 16) >>)

nr_banks == Cardinality(DOMAIN pin_banks)
BankIds == DOMAIN pin_banks
Pins(b) == 0..(pin_banks[b].nr_pins - 1)
Lines == {<<b, p>> \in BankIds \X (0..7) : p \in Pins(b)}
IsEint(b) == pin_banks[b].eint_type \in {"GPIO", "WKUP", "WKUP_MUX"}
EintLines == {l \in Lines : IsEint(l[1])}

-----------------------------------------------------------------------------
(* The register block and the primitives the handlers are written with *)

FuncReg(b) == pin_banks[b].pctl_offset
                  + pin_banks[b].type.reg_offset[PINCFG_TYPE_FUNC + 1]
FuncWidth(b) == pin_banks[b].type.fld_width[PINCFG_TYPE_FUNC + 1]
ConReg(b) == EXYNOS_GPIO_ECON_OFFSET + pin_banks[b].eint_offset
MaskReg(b) == EXYNOS_GPIO_EMASK_OFFSET + pin_banks[b].eint_offset
PendReg(b) == EXYNOS_GPIO_EPEND_OFFSET + pin_banks[b].eint_offset
FltReg(b) == EXYNOS_GPIO_EFLTCON_OFFSET + 2 * pin_banks[b].eint_offset

\* every offset of the block the driver touches for a bank table
Addrs(banks) ==
    {EXYNOS_SVC_OFFSET}
    \cup {banks[b].pctl_offset + banks[b].type.reg_offset[PINCFG_TYPE_FUNC + 1]
              : b \in DOMAIN banks}
    \cup UNION {{EXYNOS_GPIO_ECON_OFFSET + banks[b].eint_offset,
                 EXYNOS_GPIO_EMASK_OFFSET + banks[b].eint_offset,
                 EXYNOS_GPIO_EPEND_OFFSET + banks[b].eint_offset,
                 EXYNOS_GPIO_EFLTCON_OFFSET + 2 * banks[b].eint_offset,
                 EXYNOS_GPIO_EFLTCON_OFFSET + 2 * banks[b].eint_offset + 4}
                    : b \in {x \in DOMAIN banks : banks[x].eint_type # "NONE"}}

\* the pending registers are write-one-to-clear
IsPendAddr(a) == a >= EXYNOS_GPIO_EPEND_OFFSET /\ a < EXYNOS_GPIO_EPEND_OFFSET + 256

Ev(kind, a, v) == [ev |-> kind, a |-> a, v |-> v]

\* the state a handler works on; ret is the handler's return value
Machine == [mmio |-> mmio, wake_mask |-> wake_mask, irq_handler |-> irq_handler,
            gpio_irq |-> gpio_irq, save |-> save, trace |-> <<>>, ret |-> 0]

Log(s, e) == [s EXCEPT !.trace = Append(@, e)]
Return(s, r) == [s EXCEPT !.ret = r]

readl(s, a) == s.mmio[a]
LogRead(s, a) == Log(s, Ev("readl", a, s.mmio[a]))

writel(s, val, a) ==
    [s EXCEPT !.mmio[a] = IF IsPendAddr(a) THEN @ \ val ELSE val,
              !.trace = Append(@, Ev("writel", a, val))]

spin_lock_irqsave(s, b) == Log(s, Ev("lock", b, {}))
spin_unlock_irqrestore(s, b) == Log(s, Ev("unlock", b, {}))

\* the GPIO ownership layer: locking a pin as interrupt is refused for a
\* pin that is driven as an output
gpiochip_lock_as_irq(s, b, hwirq) ==
    IF <<b, hwirq>> \in gpio_out
    THEN Return(s, -EIO)
    ELSE Return([s EXCEPT !.gpio_irq = @ \cup {<<b, hwirq>>},
                          !.trace = Append(@, Ev("gpio_lock", b, {hwirq}))], 0)

gpiochip_unlock_as_irq(s, b, hwirq) ==
    [s EXCEPT !.gpio_irq = @ \ {<<b, hwirq>>},
              !.trace = Append(@, Ev("gpio_unlock", b, {hwirq}))]

\* virtual line numbers: the domain of bank b maps pin p to Virq(b, p)
Virq(b, p) == 16 * (b + 1) + p
VirqBank(virq) == (virq \div 16) - 1
VirqPin(virq) == virq % 16

\* irq_linear_revmap() and irq_find_mapping(): 0 when nothing is mapped
irq_linear_revmap(b, hwirq) == IF <<b, hwirq>> \in mapped THEN Virq(b, hwirq) ELSE 0

irq_find_mapping(b, hwirq) == irq_linear_revmap(b, hwirq)

set_handler(s, b, hwirq, h) ==
    [s EXCEPT !.irq_handler[<<b, hwirq>>] = h,
              !.trace = Append(@, Ev("set_handler_" \o h, Virq(b, hwirq), {}))]

-----------------------------------------------------------------------------
(* The chip operations *)

exynos_gpio_irq_chip == [name |-> "exynos_gpio_irq_chip",
                         eint_con |-> EXYNOS_GPIO_ECON_OFFSET,
                         eint_mask |-> EXYNOS_GPIO_EMASK_OFFSET,
                         eint_pend |-> EXYNOS_GPIO_EPEND_OFFSET,
                         irq_set_wake |-> FALSE]

exynos_wkup_irq_chip == [name |-> "exynos_wkup_irq_chip",
                         eint_con |-> EXYNOS_GPIO_ECON_OFFSET,
                         eint_mask |-> EXYNOS_GPIO_EMASK_OFFSET,
                         eint_pend |-> EXYNOS_GPIO_EPEND_OFFSET,
                         irq_set_wake |-> TRUE]

\* the chip the domain's map callback binds to the lines of bank b
ChipOf(b) == IF pin_banks[b].eint_type = "GPIO"
             THEN exynos_gpio_irq_chip ELSE exynos_wkup_irq_chip

\* exynos_irq_mask with the bit toggled instead of set
M_irq_mask_toggle(s, b, hwirq) ==
    LET reg_mask == ChipOf(b).eint_mask + pin_banks[b].eint_offset
        s1 == spin_lock_irqsave(s, b)
        old == readl(s1, reg_mask)
        mask == (old \ Shl(U32(1), hwirq)) \cup (Shl(U32(1), hwirq) \ old)
        s2 == writel(LogRead(s1, reg_mask), mask, reg_mask)
    IN  spin_unlock_irqrestore(s2, b)

exynos_irq_mask(s, b, hwirq) ==
    LET reg_mask == ChipOf(b).eint_mask + pin_banks[b].eint_offset
        s1 == spin_lock_irqsave(s, b)
        mask == BitOr(readl(s1, reg_mask), Shl(U32(1), hwirq))
        s2 == writel(LogRead(s1, reg_mask), mask, reg_mask)
    IN  spin_unlock_irqrestore(s2, b)

exynos_irq_ack(s, b, hwirq) ==
    LET reg_pend == ChipOf(b).eint_pend + pin_banks[b].eint_offset
    IN  writel(s, Shl(U32(1), hwirq), reg_pend)

\* exynos_irq_unmask with the acknowledge made for every trigger type
M_irq_unmask_ack_always(s, b, hwirq) ==
    LET reg_mask == ChipOf(b).eint_mask + pin_banks[b].eint_offset
        s0 == exynos_irq_ack(s, b, hwirq)
        s1 == spin_lock_irqsave(s0, b)
        mask == BitAnd(readl(s1, reg_mask), BitNot(Shl(U32(1), hwirq)))
        s2 == writel(LogRead(s1, reg_mask), mask, reg_mask)
    IN  spin_unlock_irqrestore(s2, b)

\* exynos_irq_unmask with the acknowledge of a level line after the unmask
M_irq_unmask_ack_after(s, b, hwirq) ==
    LET reg_mask == ChipOf(b).eint_mask + pin_banks[b].eint_offset
        s1 == spin_lock_irqsave(s, b)
        mask == BitAnd(readl(s1, reg_mask), BitNot(Shl(U32(1), hwirq)))
        s2 == writel(LogRead(s1, reg_mask), mask, reg_mask)
        s3 == spin_unlock_irqrestore(s2, b)
    IN  IF BitAnd(U32(irq_type[<<b, hwirq>>]), U32(IRQ_TYPE_LEVEL_MASK)) # {}
        THEN exynos_irq_ack(s3, b, hwirq)
        ELSE s3

exynos_irq_unmask(s, b, hwirq) ==
    LET reg_mask == ChipOf(b).eint_mask + pin_banks[b].eint_offset
        s0 == IF BitAnd(U32(irq_type[<<b, hwirq>>]), U32(IRQ_TYPE_LEVEL_MASK)) # {}
              THEN exynos_irq_ack(s, b, hwirq)
              ELSE s
        s1 == spin_lock_irqsave(s0, b)
        mask == BitAnd(readl(s1, reg_mask), BitNot(Shl(U32(1), hwirq)))
        s2 == writel(LogRead(s1, reg_mask), mask, reg_mask)
    IN  spin_unlock_irqrestore(s2, b)

\* the switch of exynos_irq_set_type: -1 stands for the default case
TrigType(type) ==
    CASE type = IRQ_TYPE_EDGE_RISING -> EXYNOS_EINT_EDGE_RISING
      [] type = IRQ_TYPE_EDGE_FALLING -> EXYNOS_EINT_EDGE_FALLING
      [] type = IRQ_TYPE_EDGE_BOTH -> EXYNOS_EINT_EDGE_BOTH
      [] type = IRQ_TYPE_LEVEL_HIGH -> EXYNOS_EINT_LEVEL_HIGH
      [] type = IRQ_TYPE_LEVEL_LOW -> EXYNOS_EINT_LEVEL_LOW
      [] OTHER -> -1

\* exynos_irq_set_type without clearing the field before the code is or-ed in
M_irq_set_type_no_clear(s, b, hwirq, type) ==
    LET shift == EXYNOS_EINT_CON_LEN * hwirq
        reg_con == ChipOf(b).eint_con + pin_banks[b].eint_offset
        trig_type == TrigType(type)
        s1 == IF BitAnd(U32(type), U32(IRQ_TYPE_EDGE_BOTH)) # {}
              THEN set_handler(s, b, hwirq, "edge")
              ELSE set_handler(s, b, hwirq, "level")
        con == BitOr(readl(s1, reg_con), Shl(U32(trig_type), shift))
    IN  IF trig_type = -1
        THEN Return(s, -EINVAL)
        ELSE Return(writel(LogRead(s1, reg_con), con, reg_con), 0)

\* exynos_irq_set_type installing the flow handler before the kind is checked
M_irq_set_type_handler_first(s, b, hwirq, type) ==
    LET shift == EXYNOS_EINT_CON_LEN * hwirq
        reg_con == ChipOf(b).eint_con + pin_banks[b].eint_offset
        trig_type == TrigType(type)
        s1 == IF BitAnd(U32(type), U32(IRQ_TYPE_EDGE_BOTH)) # {}
              THEN set_handler(s, b, hwirq, "edge")
              ELSE set_handler(s, b, hwirq, "level")
        con == BitOr(BitAnd(readl(s1, reg_con),
                            BitNot(Shl(U32(EXYNOS_EINT_CON_MASK), shift))),
                     Shl(U32(trig_type), shift))
    IN  IF trig_type = -1
        THEN Return(s1, -EINVAL)
        ELSE Return(writel(LogRead(s1, reg_con), con, reg_con), 0)

\* exynos_irq_set_type taking the edge flow handler for both edges only
M_irq_set_type_both_only(s, b, hwirq, type) ==
    LET shift == EXYNOS_EINT_CON_LEN * hwirq
        reg_con == ChipOf(b).eint_con + pin_banks[b].eint_offset
        trig_type == TrigType(type)
        s1 == IF type = IRQ_TYPE_EDGE_BOTH
              THEN set_handler(s, b, hwirq, "edge")
              ELSE set_handler(s, b, hwirq, "level")
        con == BitOr(BitAnd(readl(s1, reg_con),
                            BitNot(Shl(U32(EXYNOS_EINT_CON_MASK), shift))),
                     Shl(U32(trig_type), shift))
    IN  IF trig_type = -1
        THEN Return(s, -EINVAL)
        ELSE Return(writel(LogRead(s1, reg_con), con, reg_con), 0)

exynos_irq_set_type(s, b, hwirq, type) ==
    LET shift == EXYNOS_EINT_CON_LEN * hwirq
        reg_con == ChipOf(b).eint_con + pin_banks[b].eint_offset
        trig_type == TrigType(type)
        s1 == IF BitAnd(U32(type), U32(IRQ_TYPE_EDGE_BOTH)) # {}
              THEN set_handler(s, b, hwirq, "edge")
              ELSE set_handler(s, b, hwirq, "level")
        con == BitOr(BitAnd(readl(s1, reg_con),
                            BitNot(Shl(U32(EXYNOS_EINT_CON_MASK), shift))),
                     Shl(U32(trig_type), shift))
    IN  IF trig_type = -1
        THEN Return(s, -EINVAL)
        ELSE Return(writel(LogRead(s1, reg_con), con, reg_con), 0)

\* exynos_irq_request_resources going on after the pin could not be locked
M_irq_request_ignore_busy(s, b, hwirq) ==
    LET s0 == gpiochip_lock_as_irq(s, b, hwirq)
        reg_con == pin_banks[b].pctl_offset
                       + pin_banks[b].type.reg_offset[PINCFG_TYPE_FUNC + 1]
        shift == hwirq * pin_banks[b].type.fld_width[PINCFG_TYPE_FUNC + 1]
        mask == U32(2^(pin_banks[b].type.fld_width[PINCFG_TYPE_FUNC + 1]) - 1)
        s1 == spin_lock_irqsave(s0, b)
        con == BitOr(BitAnd(readl(s1, reg_con), BitNot(Shl(mask, shift))),
                     Shl(U32(EXYNOS_EINT_FUNC), shift))
        s2 == writel(LogRead(s1, reg_con), con, reg_con)
    IN  Return(spin_unlock_irqrestore(s2, b), s0.ret)

exynos_irq_request_resources(s, b, hwirq) ==
    LET s0 == gpiochip_lock_as_irq(s, b, hwirq)
        reg_con == pin_banks[b].pctl_offset
                       + pin_banks[b].type.reg_offset[PINCFG_TYPE_FUNC + 1]
        shift == hwirq * pin_banks[b].type.fld_width[PINCFG_TYPE_FUNC + 1]
        mask == U32(2^(pin_banks[b].type.fld_width[PINCFG_TYPE_FUNC + 1]) - 1)
        s1 == spin_lock_irqsave(s0, b)
        con == BitOr(BitAnd(readl(s1, reg_con), BitNot(Shl(mask, shift))),
                     Shl(U32(EXYNOS_EINT_FUNC), shift))
        s2 == writel(LogRead(s1, reg_con), con, reg_con)
    IN  IF s0.ret # 0
        THEN s0
        ELSE Return(spin_unlock_irqrestore(s2, b), 0)

\* exynos_irq_release_resources without clearing the field first
M_irq_release_no_clear(s, b, hwirq) ==
    LET reg_con == pin_banks[b].pctl_offset
                       + pin_banks[b].type.reg_offset[PINCFG_TYPE_FUNC + 1]
        shift == hwirq * pin_banks[b].type.fld_width[PINCFG_TYPE_FUNC + 1]
        s1 == spin_lock_irqsave(s, b)
        con == BitOr(readl(s1, reg_con), Shl(U32(FUNC_INPUT), shift))
        s2 == writel(LogRead(s1, reg_con), con, reg_con)
    IN  gpiochip_unlock_as_irq(spin_unlock_irqrestore(s2, b), b, hwirq)

\* exynos_irq_release_resources giving up the pin before it is reprogrammed
M_irq_release_unlock_first(s, b, hwirq) ==
    LET reg_con == pin_banks[b].pctl_offset
                       + pin_banks[b].type.reg_offset[PINCFG_TYPE_FUNC + 1]
        shift == hwirq * pin_banks[b].type.fld_width[PINCFG_TYPE_FUNC + 1]
        mask == U32(2^(pin_banks[b].type.fld_width[PINCFG_TYPE_FUNC + 1]) - 1)
        s1 == spin_lock_irqsave(gpiochip_unlock_as_irq(s, b, hwirq), b)
        con == BitOr(BitAnd(readl(s1, reg_con), BitNot(Shl(mask, shift))),
                     Shl(U32(FUNC_INPUT), shift))
        s2 == writel(LogRead(s1, reg_con), con, reg_con)
    IN  spin_unlock_irqrestore(s2, b)

exynos_irq_release_resources(s, b, hwirq) ==
    LET reg_con == pin_banks[b].pctl_offset
                       + pin_banks[b].type.reg_offset[PINCFG_TYPE_FUNC + 1]
        shift == hwirq * pin_banks[b].type.fld_width[PINCFG_TYPE_FUNC + 1]
        mask == U32(2^(pin_banks[b].type.fld_width[PINCFG_TYPE_FUNC + 1]) - 1)
        s1 == spin_lock_irqsave(s, b)
        con == BitOr(BitAnd(readl(s1, reg_con), BitNot(Shl(mask, shift))),
                     Shl(U32(FUNC_INPUT), shift))
        s2 == writel(LogRead(s1, reg_con), con, reg_con)
    IN  gpiochip_unlock_as_irq(spin_unlock_irqrestore(s2, b), b, hwirq)

\* exynos_wkup_irq_set_wake with the bank offset not doubled
M_wkup_irq_set_wake_offset(s, b, hwirq, on) ==
    LET bit == Shl(U32(1), pin_banks[b].eint_offset + hwirq)
    IN  Return([s EXCEPT !.wake_mask = IF on = 0 THEN BitOr(@, bit)
                                       ELSE BitAnd(@, BitNot(bit))], 0)

exynos_wkup_irq_set_wake(s, b, hwirq, on) ==
    LET bit == Shl(U32(1), 2 * pin_banks[b].eint_offset + hwirq)
    IN  Return([s EXCEPT !.wake_mask = IF on = 0 THEN BitOr(@, bit)
                                       ELSE BitAnd(@, BitNot(bit))], 0)

-----------------------------------------------------------------------------
(* The filter configurator and suspend / resume *)

RECURSIVE FltLoop(_, _, _, _)
FltLoop(s, b, flt_con, i) ==
    IF i < pin_banks[b].nr_pins \div 2
    THEN LET flt_reg == EXYNOS_GPIO_EFLTCON_OFFSET + 2 * pin_banks[b].eint_offset
             shift == i * EXYNOS_EINT_FLTCON_LEN
             val == BitOr(BitAnd(readl(s, flt_reg),
                                 BitNot(Shl(U32(EXYNOS_EINT_FLTCON_MASK), shift))),
                          Shl(flt_con, shift))
             s1 == writel(LogRead(s, flt_reg), val, flt_reg)
             s2 == writel(s1, val, flt_reg + 4)
         IN  FltLoop(s2, b, flt_con, i + 1)
    ELSE s

exynos_eint_flt_config(en, sel, width, s, b) ==
    LET flt_con == BitOr(BitOr(IF en # 0 THEN U32(EXYNOS_EINT_FLTCON_EN) ELSE {},
                               IF sel # 0 THEN U32(EXYNOS_EINT_FLTCON_SEL) ELSE {}),
                         EXYNOS_EINT_FLTCON_WIDTH(width))
    IN  FltLoop(s, b, flt_con, 0)

exynos_pinctrl_suspend_bank(s, b) ==
    LET con == EXYNOS_GPIO_ECON_OFFSET + pin_banks[b].eint_offset
        flt == EXYNOS_GPIO_EFLTCON_OFFSET + 2 * pin_banks[b].eint_offset
        s1 == LogRead(LogRead(LogRead(s, con), flt), flt + 4)
    IN  [s1 EXCEPT !.save[b] = [eint_con |-> readl(s, con),
                                eint_fltcon0 |-> readl(s, flt),
                                eint_fltcon1 |-> readl(s, flt + 4)]]

\* the loop of exynos_pinctrl_suspend passing over the muxed wakeup banks
RECURSIVE M_SuspendLoop_direct_only(_, _)
M_SuspendLoop_direct_only(s, i) ==
    IF i < nr_banks
    THEN M_SuspendLoop_direct_only(
             IF pin_banks[i].eint_type = "GPIO"
             THEN exynos_pinctrl_suspend_bank(s, i)
             ELSE IF pin_banks[i].eint_type = "WKUP"
                  THEN exynos_eint_flt_config(EXYNOS_EINT_FLTCON_EN, 0, 0, s, i)
                  ELSE s,
             i + 1)
    ELSE s

RECURSIVE SuspendLoop(_, _)
SuspendLoop(s, i) ==
    IF i < nr_banks
    THEN SuspendLoop(
             IF pin_banks[i].eint_type = "GPIO"
             THEN exynos_pinctrl_suspend_bank(s, i)
             ELSE IF pin_banks[i].eint_type \in {"WKUP", "WKUP_MUX"}
                  THEN exynos_eint_flt_config(EXYNOS_EINT_FLTCON_EN, 0, 0, s, i)
                  ELSE s,
             i + 1)
    ELSE s

exynos_pinctrl_suspend(s) == SuspendLoop(s, 0)

\* exynos_pinctrl_resume_bank leaving out the second filter register
M_resume_bank_no_fltcon1(s, b) ==
    LET con == EXYNOS_GPIO_ECON_OFFSET + pin_banks[b].eint_offset
        flt == EXYNOS_GPIO_EFLTCON_OFFSET + 2 * pin_banks[b].eint_offset
        s1 == writel(s, s.save[b].eint_con, con)
    IN  writel(s1, s.save[b].eint_fltcon0, flt)

\* exynos_pinctrl_resume_bank acknowledging whatever is pending in the bank
M_resume_bank_ack_all(s, b) ==
    LET con == EXYNOS_GPIO_ECON_OFFSET + pin_banks[b].eint_offset
        flt == EXYNOS_GPIO_EFLTCON_OFFSET + 2 * pin_banks[b].eint_offset
        s1 == writel(s, s.save[b].eint_con, con)
        s2 == writel(s1, s.save[b].eint_fltcon0, flt)
        s3 == writel(s2, s.save[b].eint_fltcon1, flt + 4)
    IN  writel(s3, Bits32, EXYNOS_GPIO_EPEND_OFFSET + pin_banks[b].eint_offset)

exynos_pinctrl_resume_bank(s, b) ==
    LET con == EXYNOS_GPIO_ECON_OFFSET + pin_banks[b].eint_offset
        flt == EXYNOS_GPIO_EFLTCON_OFFSET + 2 * pin_banks[b].eint_offset
        s1 == writel(s, s.save[b].eint_con, con)
        s2 == writel(s1, s.save[b].eint_fltcon0, flt)
    IN  writel(s2, s.save[b].eint_fltcon1, flt + 4)

RECURSIVE ResumeLoop(_, _)
ResumeLoop(s, i) ==
    IF i < nr_banks
    THEN ResumeLoop(
             IF pin_banks[i].eint_type = "GPIO"
             THEN exynos_pinctrl_resume_bank(s, i)
             ELSE IF pin_banks[i].eint_type \in {"WKUP", "WKUP_MUX"}
                  THEN exynos_eint_flt_config(EXYNOS_EINT_FLTCON_EN,
                                              EXYNOS_EINT_FLTCON_SEL, 0, s, i)
                  ELSE s,
             i + 1)
    ELSE s

exynos_pinctrl_resume(s) == ResumeLoop(s, 0)

-----------------------------------------------------------------------------
(* Dispatch *)

IRQ_NONE == 0
IRQ_HANDLED == 1

\* a consumer's handler is installed on the lines it has requested
HasAction(s, b, p) == <<b, p>> \in s.gpio_irq

\* the level flow: mask and acknowledge, run the consumer, unmask
handle_level_irq(s, b, p) ==
    LET s1 == exynos_irq_ack(exynos_irq_mask(s, b, p), b, p)
    IN  IF HasAction(s, b, p)
        THEN exynos_irq_unmask(Log(s1, Ev("action", Virq(b, p), {})), b, p)
        ELSE s1

\* the edge flow: acknowledge and run the consumer
handle_edge_irq(s, b, p) ==
    IF HasAction(s, b, p)
    THEN Log(exynos_irq_ack(s, b, p), Ev("action", Virq(b, p), {}))
    ELSE exynos_irq_ack(exynos_irq_mask(s, b, p), b, p)

\* the generic dispatch: virtual line 0 has no descriptor
generic_handle_irq(s, virq) ==
    LET s1 == Log(s, Ev("generic_handle_irq", virq, {}))
        b == VirqBank(virq)
        p == VirqPin(virq)
    IN  IF virq = 0
        THEN s1
        ELSE IF s.irq_handler[<<b, p>>] = "edge"
             THEN handle_edge_irq(s1, b, p)
             ELSE handle_level_irq(s1, b, p)

EXYNOS_SVC_GROUP(x) ==
    Field(BitAnd(Shr(x, EXYNOS_SVC_GROUP_SHIFT), U32(EXYNOS_SVC_GROUP_MASK)), 0, 32)

\* exynos_eint_gpio_irq taking the group as the bank index
M_eint_gpio_irq_bank(s) ==
    LET svc == readl(s, EXYNOS_SVC_OFFSET)
        s1 == LogRead(s, EXYNOS_SVC_OFFSET)
        group == EXYNOS_SVC_GROUP(svc)
        pin == Field(BitAnd(svc, U32(EXYNOS_SVC_NUM_MASK)), 0, 32)
        bank == group
        virq == irq_linear_revmap(bank, pin)
        s2 == Log(s1, Ev("irq_linear_revmap", bank, {pin}))
    IN  IF group = 0
        THEN Return(s1, IRQ_HANDLED)
        ELSE IF virq = 0
             THEN Return(s2, IRQ_NONE)
             ELSE Return(generic_handle_irq(s2, virq), IRQ_HANDLED)

\* exynos_eint_gpio_irq dispatching whatever the reverse map returns
M_eint_gpio_irq_no_check(s) ==
    LET svc == readl(s, EXYNOS_SVC_OFFSET)
        s1 == LogRead(s, EXYNOS_SVC_OFFSET)
        group == EXYNOS_SVC_GROUP(svc)
        pin == Field(BitAnd(svc, U32(EXYNOS_SVC_NUM_MASK)), 0, 32)
        bank == group - 1
        virq == irq_linear_revmap(bank, pin)
        s2 == Log(s1, Ev("irq_linear_revmap", bank, {pin}))
    IN  IF group = 0
        THEN Return(s1, IRQ_HANDLED)
        ELSE Return(generic_handle_irq(s2, virq), IRQ_HANDLED)

\* the primary GPIO handler; group - 1 is a bank of the table with a domain
exynos_eint_gpio_irq(s) ==
    LET svc == readl(s, EXYNOS_SVC_OFFSET)
        s1 == LogRead(s, EXYNOS_SVC_OFFSET)
        group == EXYNOS_SVC_GROUP(svc)
        pin == Field(BitAnd(svc, U32(EXYNOS_SVC_NUM_MASK)), 0, 32)
        bank == group - 1
        virq == irq_linear_revmap(bank, pin)
        s2 == Log(s1, Ev("irq_linear_revmap", bank, {pin}))
    IN  IF group = 0
        THEN Return(s1, IRQ_HANDLED)
        ELSE IF virq = 0
             THEN Return(s2, IRQ_NONE)
             ELSE Return(generic_handle_irq(s2, virq), IRQ_HANDLED)

\* fls() of the low 32 bits
fls(x) == IF x \cap Bits32 = {} THEN 0
          ELSE 1 + CHOOSE i \in x \cap Bits32 : \A j \in x \cap Bits32 : j <= i

\* ~(1 << irq), an int, converted to unsigned long
NotBit(irq) == IF irq = 31 THEN 0..30 ELSE (0..63) \ {irq}

\* exynos_irq_demux_eint walking the pending bits lowest first
RECURSIVE M_irq_demux_eint_lowest(_, _, _)
M_irq_demux_eint_lowest(s, pend, b) ==
    IF pend # {}
    THEN LET irq == CHOOSE i \in pend : \A j \in pend : i <= j
             s1 == Log(s, Ev("irq_find_mapping", b, {irq}))
         IN  M_irq_demux_eint_lowest(generic_handle_irq(s1, irq_find_mapping(b, irq)),
                                     pend \cap NotBit(irq), b)
    ELSE s

\* exynos_irq_demux_eint clearing the bit below the dispatched one as well
RECURSIVE M_irq_demux_eint_clear_two(_, _, _)
M_irq_demux_eint_clear_two(s, pend, b) ==
    IF pend # {}
    THEN LET irq == fls(pend) - 1
             s1 == Log(s, Ev("irq_find_mapping", b, {irq}))
         IN  M_irq_demux_eint_clear_two(
                 generic_handle_irq(s1, irq_find_mapping(b, irq)),
                 (pend \cap NotBit(irq)) \cap NotBit(irq - 1), b)
    ELSE s

\* exynos_irq_eint0_15 unmasking the line before the dispatch
M_irq_eint0_15_unmask_early(s, h, has_ack) ==
    LET s1 == Log(Log(s, Ev("chained_irq_enter", 0, {})), Ev("chip_irq_mask", h.irq, {}))
        s2 == IF has_ack THEN Log(s1, Ev("chip_irq_ack", h.irq, {})) ELSE s1
        eint_irq == irq_linear_revmap(h.bank, h.pin)
        s3 == Log(Log(s2, Ev("irq_linear_revmap", h.bank, {h.pin})),
                  Ev("chip_irq_unmask", h.irq, {}))
        s4 == generic_handle_irq(s3, eint_irq)
    IN  Log(s4, Ev("chained_irq_exit", 0, {}))

\* interrupt handler for wakeup interrupts 0..15; h is the handler data of
\* the physical line, chip the irq_chip of that line
exynos_irq_eint0_15(s, h, has_ack) ==
    LET s1 == Log(Log(s, Ev("chained_irq_enter", 0, {})), Ev("chip_irq_mask", h.irq, {}))
        s2 == IF has_ack THEN Log(s1, Ev("chip_irq_ack", h.irq, {})) ELSE s1
        eint_irq == irq_linear_revmap(h.bank, h.pin)
        s3 == Log(s2, Ev("irq_linear_revmap", h.bank, {h.pin}))
        s4 == generic_handle_irq(s3, eint_irq)
    IN  Log(Log(s4, Ev("chip_irq_unmask", h.irq, {})), Ev("chained_irq_exit", 0, {}))

RECURSIVE exynos_irq_demux_eint(_, _, _)
exynos_irq_demux_eint(s, pend, b) ==
    IF pend # {}
    THEN LET irq == fls(pend) - 1
             s1 == Log(s, Ev("irq_find_mapping", b, {irq}))
         IN  exynos_irq_demux_eint(generic_handle_irq(s1, irq_find_mapping(b, irq)),
                                   pend \cap NotBit(irq), b)
    ELSE s

RECURSIVE DemuxLoop(_, _)
DemuxLoop(s, i) ==
    IF i < muxed_nr_banks
    THEN LET b == muxed_data[i + 1]
             reg_pend == EXYNOS_GPIO_EPEND_OFFSET + pin_banks[b].eint_offset
             reg_mask == EXYNOS_GPIO_EMASK_OFFSET + pin_banks[b].eint_offset
             pend == readl(s, reg_pend)
             mask == readl(s, reg_mask)
             s1 == LogRead(LogRead(s, reg_pend), reg_mask)
         IN  DemuxLoop(exynos_irq_demux_eint(s1, BitAnd(pend, (0..63) \ mask), b),
                       i + 1)
    ELSE s

exynos_irq_demux_eint16_31(s) ==
    Log(DemuxLoop(Log(s, Ev("chained_irq_enter", 0, {})), 0),
        Ev("chained_irq_exit", 0, {}))

-----------------------------------------------------------------------------
(* Initial states *)

\* register contents the hardware may hold when the driver takes over
Patterns == {{}, Bits32, {i \in Bits32 : i % 3 = 0}}

\* events the pending register of a bank may have latched
PendPatterns == {{}, {2, 5}, {1, 3, 7}, {0, 4, 31}}

\* a register block holding pend in its pending registers, pat elsewhere
RegFile(banks, pat, pend) ==
    [a \in Addrs(banks) |-> IF IsPendAddr(a) THEN pend ELSE pat]

\* the lines a board wires to interrupt consumers: the last pin of every
\* EINT bank, and pin 0 of the banks at EINT offset 0
Consumers(banks) ==
    {l \in (DOMAIN banks) \X (0..7) :
        /\ banks[l[1]].eint_type # "NONE"
        /\ \/ l[2] = banks[l[1]].nr_pins - 1
           \/ l[2] = 0 /\ banks[l[1]].eint_offset = 0}

\* the trigger kinds a consumer may ask for: the five supported ones, none,
\* and a combination of an edge with a level
TriggerKinds == {IRQ_TYPE_NONE, IRQ_TYPE_EDGE_RISING, IRQ_TYPE_EDGE_FALLING,
                 IRQ_TYPE_EDGE_BOTH, IRQ_TYPE_LEVEL_HIGH, IRQ_TYPE_LEVEL_LOW,
                 IRQ_TYPE_EDGE_RISING + IRQ_TYPE_LEVEL_HIGH}

LinesOf(banks) == {<<b, p>> \in (DOMAIN banks) \X (0..7) : p < banks[b].nr_pins}
EintLinesOf(banks) == {l \in LinesOf(banks) : banks[l[1]].eint_type # "NONE"}

NoOp == [op |-> "none", bank |-> -1, pin |-> -1, arg |-> 0, ret |-> 0]

\* the processors, and a processor that is not inside an operation
CPUs == {0, 1}

\* a processor that is in no _dump_stack call, its interrupts enabled
NoDump == [irqs |-> TRUE, calls |-> <<>>]
Idle == [pc |-> "idle", op |-> "none", bank |-> -1, pin |-> -1, arg |-> 0, tmp |-> {}]

\* devm_kzalloc() hands out zeroed memory
ZeroSave == [eint_con |-> {}, eint_fltcon0 |-> {}, eint_fltcon1 |-> {}]

\* the driver instance after its initialisation, on bank table `banks`:
\* every line of an EINT bank mapped by default to the level flow handler
\* the initialisation programs the digital filter of every EINT bank
RECURSIVE InitFilters(_, _)
InitFilters(s, i) ==
    IF i < nr_banks
    THEN InitFilters(IF IsEint(i)
                     THEN exynos_eint_flt_config(EXYNOS_EINT_FLTCON_EN,
                                                 EXYNOS_EINT_FLTCON_SEL, 0, s, i)
                     ELSE s,
                     i + 1)
    ELSE s

\* the banks of the wakeup controller whose node lists one physical line per
\* pin; the others share the muxed line
OfInterrupts == {"gpa0", "gpa1"}

\* the device tree of a board: the wakeup controller node exists, the banks
\* named in OfInterrupts list one physical line per pin, every line resolves
DefaultNode(banks) ==
    [irq |-> TRUE, wkup_np |-> TRUE,
     interrupts |-> {b \in DOMAIN banks : banks[b].name \in OfInterrupts},
     unresolved |-> {}, muxed_irq |-> TRUE]

\* the binding of the direct handler to the physical line of pin idx of bank b
DirectBinding(b, idx) ==
    [irq |-> <<b, idx>>, handler |-> "exynos_irq_eint0_15", bank |-> b, pin |-> idx]

\* the bindings of the controller's interrupt and of the muxed wakeup line
GpioBinding == [irq |-> <<-1, 0>>, handler |-> "exynos_eint_gpio_irq",
                bank |-> -1, pin |-> -1]
MuxedBinding == [irq |-> <<-1, 1>>, handler |-> "exynos_irq_demux_eint16_31",
                 bank |-> -1, pin |-> -1]

InitDriver(banks, files, consumers, muxed) ==
    /\ pin_banks = banks
    /\ of_node = DefaultNode(banks)
    /\ irq_domain = {b \in DOMAIN banks : banks[b].eint_type # "NONE"}
    /\ handlers = {GpioBinding}
                      \cup {DirectBinding(l[1], l[2]) :
                              l \in {x \in LinesOf(banks) : banks[x[1]].eint_type = "WKUP"}}
                      \cup (IF muxed = <<>> THEN {} ELSE {MuxedBinding})
    /\ muxed_nr_banks = Len(muxed)
    /\ mmio \in {InitFilters([mmio |-> f, trace |-> <<>>], 0).mmio : f \in files}
    /\ wake_mask = Bits32
    /\ irq_type = [l \in LinesOf(banks) |-> IRQ_TYPE_NONE]
    /\ irq_handler = [l \in LinesOf(banks) |-> "level"]
    /\ mapped = consumers
    /\ gpio_irq = {}
    /\ gpio_out = {}
    /\ save = [b \in DOMAIN banks |-> ZeroSave]
    /\ muxed_data = muxed
    /\ suspended = FALSE
    /\ trace = <<>>
    /\ last = NoOp
    /\ nops = 0
    /\ cpus = [c \in CPUs |-> Idle]
    /\ dump_lock = -1
    /\ dump_cpu = [c \in CPUs |-> NoDump]
    /\ slock = [b \in DOMAIN banks |-> -1]

Commit(s, op, b, p, arg) ==
    /\ mmio' = s.mmio
    /\ wake_mask' = s.wake_mask
    /\ irq_handler' = s.irq_handler
    /\ gpio_irq' = s.gpio_irq
    /\ save' = s.save
    /\ trace' = s.trace
    /\ last' = [op |-> op, bank |-> b, pin |-> p, arg |-> arg, ret |-> s.ret]
    /\ nops' = nops + 1

-----------------------------------------------------------------------------
(* The chip operations as the interrupt core calls them on a mapped line *)

Mask(b, p) ==
    /\ <<b, p>> \in mapped
    /\ Commit(exynos_irq_mask(Machine, b, p), "mask", b, p, 0)
    /\ UNCHANGED <<dump_lock, dump_cpu, cpus, slock, of_node, irq_domain, handlers, muxed_nr_banks, pin_banks, irq_type, mapped, gpio_out, muxed_data, suspended>>

Unmask(b, p) ==
    /\ <<b, p>> \in mapped
    /\ Commit(exynos_irq_unmask(Machine, b, p), "unmask", b, p, 0)
    /\ UNCHANGED <<dump_lock, dump_cpu, cpus, slock, of_node, irq_domain, handlers, muxed_nr_banks, pin_banks, irq_type, mapped, gpio_out, muxed_data, suspended>>

Ack(b, p) ==
    /\ <<b, p>> \in mapped
    /\ Commit(exynos_irq_ack(Machine, b, p), "ack", b, p, 0)
    /\ UNCHANGED <<dump_lock, dump_cpu, cpus, slock, of_node, irq_domain, handlers, muxed_nr_banks, pin_banks, irq_type, mapped, gpio_out, muxed_data, suspended>>

\* the core records the trigger type of the line when the chip accepts it
SetType(b, p, type) ==
    /\ <<b, p>> \in mapped
    /\ LET s == exynos_irq_set_type(Machine, b, p, type)
       IN  /\ Commit(s, "set_type", b, p, type)
           /\ irq_type' = IF s.ret = 0 THEN [irq_type EXCEPT ![<<b, p>>] = type]
                          ELSE irq_type
    /\ UNCHANGED <<dump_lock, dump_cpu, cpus, slock, of_node, irq_domain, handlers, muxed_nr_banks, pin_banks, mapped, gpio_out, muxed_data, suspended>>

\* the hardware latches an event of pin p in the pending register
HwEvent(b, p) ==
    /\ <<b, p>> \in mapped
    /\ p \notin mmio[PendReg(b)]
    /\ mmio' = [mmio EXCEPT ![PendReg(b)] = @ \cup {p}]
    /\ trace' = <<>>
    /\ last' = [op |-> "hw_event", bank |-> b, pin |-> p, arg |-> 0, ret |-> 0]
    /\ nops' = nops + 1
    /\ UNCHANGED <<dump_lock, dump_cpu, cpus, slock, of_node, irq_domain, handlers, muxed_nr_banks, pin_banks, wake_mask, irq_type, irq_handler, mapped,
                   gpio_irq, gpio_out, save, muxed_data, suspended>>

\* the GPIO layer turns a pin into an output (refused for a pin locked as
\* interrupt) or back into an input, reprogramming its function-select field
FUNC_OUTPUT == 1

SetFunc(v, b, p, code) ==
    BitOr(BitAnd(v, BitNot(Shl(U32(2^FuncWidth(b) - 1), p * FuncWidth(b)))),
          Shl(U32(code), p * FuncWidth(b)))

GpioOutput(b, p) ==
    /\ <<b, p>> \in mapped
    /\ <<b, p>> \notin gpio_irq
    /\ <<b, p>> \notin gpio_out
    /\ gpio_out' = gpio_out \cup {<<b, p>>}
    /\ mmio' = [mmio EXCEPT ![FuncReg(b)] = SetFunc(@, b, p, FUNC_OUTPUT)]
    /\ trace' = <<>>
    /\ last' = [op |-> "gpio_output", bank |-> b, pin |-> p, arg |-> 0, ret |-> 0]
    /\ nops' = nops + 1
    /\ UNCHANGED <<dump_lock, dump_cpu, cpus, slock, of_node, irq_domain, handlers, muxed_nr_banks, pin_banks, wake_mask, irq_type, irq_handler, mapped,
                   gpio_irq, save, muxed_data, suspended>>

GpioInput(b, p) ==
    /\ <<b, p>> \in gpio_out
    /\ gpio_out' = gpio_out \ {<<b, p>>}
    /\ mmio' = [mmio EXCEPT ![FuncReg(b)] = SetFunc(@, b, p, FUNC_INPUT)]
    /\ trace' = <<>>
    /\ last' = [op |-> "gpio_input", bank |-> b, pin |-> p, arg |-> 0, ret |-> 0]
    /\ nops' = nops + 1
    /\ UNCHANGED <<dump_lock, dump_cpu, cpus, slock, of_node, irq_domain, handlers, muxed_nr_banks, pin_banks, wake_mask, irq_type, irq_handler, mapped,
                   gpio_irq, save, muxed_data, suspended>>

\* request_irq() on a line that has no handler installed yet
RequestResources(b, p) ==
    /\ <<b, p>> \in mapped
    /\ <<b, p>> \notin gpio_irq
    /\ Commit(exynos_irq_request_resources(Machine, b, p), "request", b, p, 0)
    /\ UNCHANGED <<dump_lock, dump_cpu, cpus, slock, of_node, irq_domain, handlers, muxed_nr_banks, pin_banks, irq_type, mapped, gpio_out, muxed_data, suspended>>

\* free_irq() on a line whose handler was installed
ReleaseResources(b, p) ==
    /\ <<b, p>> \in mapped
    /\ <<b, p>> \in gpio_irq
    /\ Commit(exynos_irq_release_resources(Machine, b, p), "release", b, p, 0)
    /\ UNCHANGED <<dump_lock, dump_cpu, cpus, slock, of_node, irq_domain, handlers, muxed_nr_banks, pin_banks, irq_type, mapped, gpio_out, muxed_data, suspended>>

\* irq_set_irq_wake(): only the wakeup chip has the operation
SetWake(b, p, on) ==
    /\ <<b, p>> \in mapped
    /\ ChipOf(b).irq_set_wake
    /\ Commit(exynos_wkup_irq_set_wake(Machine, b, p, on), "set_wake", b, p, on)
    /\ UNCHANGED <<dump_lock, dump_cpu, cpus, slock, of_node, irq_domain, handlers, muxed_nr_banks, pin_banks, irq_type, mapped, gpio_out, muxed_data, suspended>>

Suspend ==
    /\ ~suspended
    /\ Commit(exynos_pinctrl_suspend(Machine), "suspend", -1, -1, 0)
    /\ suspended' = TRUE
    /\ UNCHANGED <<dump_lock, dump_cpu, cpus, slock, of_node, irq_domain, handlers, muxed_nr_banks, pin_banks, irq_type, mapped, gpio_out, muxed_data>>

Resume ==
    /\ suspended
    /\ Commit(exynos_pinctrl_resume(Machine), "resume", -1, -1, 0)
    /\ suspended' = FALSE
    /\ UNCHANGED <<dump_lock, dump_cpu, cpus, slock, of_node, irq_domain, handlers, muxed_nr_banks, pin_banks, irq_type, mapped, gpio_out, muxed_data>>

\* the block loses its register contents while the system sleeps
PowerLoss(pat) ==
    /\ suspended
    /\ last.op = "suspend"
    /\ mmio' = [a \in DOMAIN mmio |-> pat]
    /\ trace' = <<>>
    /\ last' = [op |-> "power_loss", bank |-> -1, pin |-> -1, arg |-> 0, ret |-> 0]
    /\ nops' = nops + 1
    /\ UNCHANGED <<dump_lock, dump_cpu, cpus, slock, of_node, irq_domain, handlers, muxed_nr_banks, pin_banks, wake_mask, irq_type, irq_handler, mapped,
                   gpio_irq, gpio_out, save, muxed_data, suspended>>

\* the hardware reports group g and pin p in the service register
HwService(g, p) ==
    /\ mmio' = [mmio EXCEPT ![EXYNOS_SVC_OFFSET] = U32(8 * g + p)]
    /\ trace' = <<>>
    /\ last' = [op |-> "hw_service", bank |-> g, pin |-> p, arg |-> 0, ret |-> 0]
    /\ nops' = nops + 1
    /\ UNCHANGED <<dump_lock, dump_cpu, cpus, slock, of_node, irq_domain, handlers, muxed_nr_banks, pin_banks, wake_mask, irq_type, irq_handler, mapped,
                   gpio_irq, gpio_out, save, muxed_data, suspended>>

\* what the primary GPIO handler can do: a bank index outside the table
\* reads memory behind the array (it may fault, find nothing, or dispatch a
\* stray line); a bank without a domain faults
GpioIrqOutcomes(s) ==
    LET group == EXYNOS_SVC_GROUP(readl(s, EXYNOS_SVC_OFFSET))
        s1 == LogRead(s, EXYNOS_SVC_OFFSET)
        oops == Return(Log(s1, Ev("oops", 0, {})), -1)
    IN  IF group = 0 \/ ((group - 1) \in BankIds /\ IsEint(group - 1))
        THEN {exynos_eint_gpio_irq(s)}
        ELSE IF (group - 1) \in BankIds
             THEN {oops}
             ELSE {oops, Return(s1, IRQ_NONE),
                   Return(Log(s1, Ev("generic_handle_irq", 1, {})), IRQ_HANDLED)}

GpioIrq ==
    /\ \E r \in GpioIrqOutcomes(Machine) :
           Commit(r, "gpio_irq", EXYNOS_SVC_GROUP(mmio[EXYNOS_SVC_OFFSET]) - 1,
                  Field(mmio[EXYNOS_SVC_OFFSET], 0, 3), 0)
    /\ UNCHANGED <<dump_lock, dump_cpu, cpus, slock, of_node, irq_domain, handlers, muxed_nr_banks, pin_banks, irq_type, mapped, gpio_out, muxed_data, suspended>>

\* the physical line of a direct wakeup pin fires; the chip of that line,
\* the parent interrupt controller, may or may not have an irq_ack
Eint0_15(h, has_ack) ==
    /\ h \in handlers
    /\ h.handler = "exynos_irq_eint0_15"
    /\ Commit(exynos_irq_eint0_15(Machine, h, has_ack), "eint0_15", h.bank, h.pin,
              IF has_ack THEN 1 ELSE 0)
    /\ UNCHANGED <<dump_lock, dump_cpu, cpus, slock, of_node, irq_domain, handlers, muxed_nr_banks, pin_banks, irq_type, mapped, gpio_out, muxed_data, suspended>>

\* the shared physical line of the muxed wakeup banks fires
DemuxEint16_31 ==
    /\ muxed_data # <<>>
    /\ Commit(exynos_irq_demux_eint16_31(Machine), "demux", -1, -1, 0)
    /\ UNCHANGED <<dump_lock, dump_cpu, cpus, slock, of_node, irq_domain, handlers, muxed_nr_banks, pin_banks, irq_type, mapped, gpio_out, muxed_data, suspended>>

\* a call of the filter configurator for a bank with external interrupts
FltConfig(b, en, sel, width) ==
    /\ IsEint(b)
    /\ Commit(exynos_eint_flt_config(en, sel, width, Machine, b), "flt_config", b, -1,
              en + sel + width)
    /\ UNCHANGED <<dump_lock, dump_cpu, cpus, slock, of_node, irq_domain, handlers, muxed_nr_banks, pin_banks,
                   irq_type, mapped, gpio_out, muxed_data, suspended>>

-----------------------------------------------------------------------------
(* The chip operations step by step, on several processors *)

\* the operation as one call
ChipOp(op, s, b, p, arg) ==
    CASE op = "mask" -> exynos_irq_mask(s, b, p)
      [] op = "unmask" -> exynos_irq_unmask(s, b, p)
      [] op = "request" -> exynos_irq_request_resources(s, b, p)
      [] op = "release" -> exynos_irq_release_resources(s, b, p)
      [] op = "set_type" -> exynos_irq_set_type(s, b, p, arg)
      [] op = "set_wake" -> exynos_wkup_irq_set_wake(s, b, p, arg)

\* the operations that take bank->slock around their read-modify-write
TakesLock(op) == op \in {"mask", "unmask", "request", "release"}

\* the register an operation reads, modifies and writes; -1 stands for the
\* variable exynos_eint_wake_mask
RmwReg(op, b) ==
    CASE op \in {"mask", "unmask"} -> ChipOf(b).eint_mask + pin_banks[b].eint_offset
      [] op \in {"request", "release"} ->
             pin_banks[b].pctl_offset + pin_banks[b].type.reg_offset[PINCFG_TYPE_FUNC + 1]
      [] op = "set_type" -> ChipOf(b).eint_con + pin_banks[b].eint_offset
      [] op = "set_wake" -> -1

RmwGet(s, op, b) == IF op = "set_wake" THEN s.wake_mask ELSE s.mmio[RmwReg(op, b)]

\* the value an operation writes when v is the value it read
RmwNew(op, b, p, arg, v) ==
    LET s == IF op = "set_wake"
             THEN [Machine EXCEPT !.wake_mask = v]
             ELSE [Machine EXCEPT !.mmio[RmwReg(op, b)] = v]
    IN  RmwGet(ChipOp(op, s, b, p, arg), op, b)

\* processor c enters an operation and does what comes before the
\* read-modify-write: the acknowledge of a level line in unmask, the lock of
\* the pin in request, the choice of the flow handler in set_type
CpuBegin(c, op, b, p, arg) ==
    /\ nops < MaxConcOps
    /\ cpus[c].pc = "idle"
    /\ <<b, p>> \in mapped
    /\ \A o \in CPUs : <<cpus[o].bank, cpus[o].pin>> # <<b, p>>
    /\ op = "request" => (<<b, p>> \notin gpio_irq /\ <<b, p>> \notin gpio_out)
    /\ op = "release" => <<b, p>> \in gpio_irq
    /\ op = "set_wake" => ChipOf(b).irq_set_wake
    /\ op = "set_type" => TrigType(arg) # -1
    /\ LET s == ChipOp(op, Machine, b, p, arg)
       IN  /\ mmio' = [a \in DOMAIN mmio |->
                          IF a = RmwReg(op, b) THEN mmio[a] ELSE s.mmio[a]]
           /\ gpio_irq' = IF op = "request" THEN s.gpio_irq ELSE gpio_irq
           /\ irq_handler' = s.irq_handler
    /\ cpus' = [cpus EXCEPT ![c] = [pc |-> IF TakesLock(op) THEN "lock" ELSE "read",
                                    op |-> op, bank |-> b, pin |-> p, arg |-> arg,
                                    tmp |-> {}]]
    /\ nops' = nops + 1
    /\ UNCHANGED <<dump_lock, dump_cpu, slock, of_node, irq_domain, handlers, muxed_nr_banks, pin_banks,
                   wake_mask, irq_type, mapped, gpio_out, save, muxed_data,
                   suspended, trace, last>>

\* spin_lock_irqsave taking the lock although another processor holds it
M_CpuLock_no_wait(c) ==
    /\ cpus[c].pc = "lock"
    /\ slock' = [slock EXCEPT ![cpus[c].bank] = c]
    /\ cpus' = [cpus EXCEPT ![c].pc = "read"]
    /\ UNCHANGED <<dump_lock, dump_cpu, of_node, irq_domain, handlers, muxed_nr_banks, pin_banks, mmio,
                   wake_mask, irq_type, irq_handler, mapped, gpio_irq, gpio_out,
                   save, muxed_data, suspended, trace, last, nops>>

\* spin_lock_irqsave(&bank->slock, flags)
CpuLock(c) ==
    /\ cpus[c].pc = "lock"
    /\ slock[cpus[c].bank] = -1
    /\ slock' = [slock EXCEPT ![cpus[c].bank] = c]
    /\ cpus' = [cpus EXCEPT ![c].pc = "read"]
    /\ UNCHANGED <<dump_lock, dump_cpu, of_node, irq_domain, handlers, muxed_nr_banks, pin_banks, mmio,
                   wake_mask, irq_type, irq_handler, mapped, gpio_irq, gpio_out,
                   save, muxed_data, suspended, trace, last, nops>>

\* the readl, or the load of exynos_eint_wake_mask
CpuRead(c) ==
    /\ cpus[c].pc = "read"
    /\ cpus' = [cpus EXCEPT ![c].pc = "write",
                            ![c].tmp = RmwGet(Machine, cpus[c].op, cpus[c].bank)]
    /\ UNCHANGED <<dump_lock, dump_cpu, slock, of_node, irq_domain, handlers, muxed_nr_banks, pin_banks,
                   mmio, wake_mask, irq_type, irq_handler, mapped, gpio_irq,
                   gpio_out, save, muxed_data, suspended, trace, last, nops>>

\* the store of exynos_eint_wake_mask made as one atomic update of the
\* variable
M_CpuWrite_atomic(c) ==
    /\ cpus[c].pc = "write"
    /\ LET me == cpus[c]
           new == RmwNew(me.op, me.bank, me.pin, me.arg,
                         RmwGet(Machine, me.op, me.bank))
       IN  /\ mmio' = IF me.op = "set_wake" THEN mmio
                      ELSE [mmio EXCEPT ![RmwReg(me.op, me.bank)] = new]
           /\ wake_mask' = IF me.op = "set_wake" THEN new ELSE wake_mask
    /\ cpus' = [cpus EXCEPT ![c].pc = "return"]
    /\ UNCHANGED <<dump_lock, dump_cpu, slock, of_node, irq_domain, handlers, muxed_nr_banks, pin_banks,
                   irq_type, irq_handler, mapped, gpio_irq, gpio_out, save,
                   muxed_data, suspended, trace, last, nops>>

\* the writel, or the store of exynos_eint_wake_mask, of the value computed
\* from what was read
CpuWrite(c) ==
    /\ cpus[c].pc = "write"
    /\ LET me == cpus[c]
           new == RmwNew(me.op, me.bank, me.pin, me.arg, me.tmp)
       IN  /\ mmio' = IF me.op = "set_wake" THEN mmio
                      ELSE [mmio EXCEPT ![RmwReg(me.op, me.bank)] = new]
           /\ wake_mask' = IF me.op = "set_wake" THEN new ELSE wake_mask
    /\ cpus' = [cpus EXCEPT ![c].pc = "return"]
    /\ UNCHANGED <<dump_lock, dump_cpu, slock, of_node, irq_domain, handlers, muxed_nr_banks, pin_banks,
                   irq_type, irq_handler, mapped, gpio_irq, gpio_out, save,
                   muxed_data, suspended, trace, last, nops>>

\* the return of exynos_irq_mask without spin_unlock_irqrestore
M_CpuReturn_mask_keeps_lock(c) ==
    /\ cpus[c].pc = "return"
    /\ LET me == cpus[c]
       IN  /\ slock' = IF TakesLock(me.op) /\ me.op # "mask" THEN [slock EXCEPT ![me.bank] = -1]
                       ELSE slock
           /\ gpio_irq' = IF me.op = "release" THEN gpio_irq \ {<<me.bank, me.pin>>}
                          ELSE gpio_irq
           /\ irq_type' = IF me.op = "set_type"
                          THEN [irq_type EXCEPT ![<<me.bank, me.pin>>] = me.arg]
                          ELSE irq_type
           /\ last' = [op |-> me.op, bank |-> me.bank, pin |-> me.pin,
                       arg |-> me.arg, ret |-> 0]
    /\ cpus' = [cpus EXCEPT ![c] = Idle]
    /\ UNCHANGED <<dump_lock, dump_cpu, of_node, irq_domain, handlers, muxed_nr_banks, pin_banks, mmio,
                   wake_mask, irq_handler, mapped, gpio_out, save, muxed_data,
                   suspended, trace, nops>>

\* spin_unlock_irqrestore where the lock was taken, the unlock of the pin in
\* release, and the return; the core records an accepted trigger type
CpuReturn(c) ==
    /\ cpus[c].pc = "return"
    /\ LET me == cpus[c]
       IN  /\ slock' = IF TakesLock(me.op) THEN [slock EXCEPT ![me.bank] = -1]
                       ELSE slock
           /\ gpio_irq' = IF me.op = "release" THEN gpio_irq \ {<<me.bank, me.pin>>}
                          ELSE gpio_irq
           /\ irq_type' = IF me.op = "set_type"
                          THEN [irq_type EXCEPT ![<<me.bank, me.pin>>] = me.arg]
                          ELSE irq_type
           /\ last' = [op |-> me.op, bank |-> me.bank, pin |-> me.pin,
                       arg |-> me.arg, ret |-> 0]
    /\ cpus' = [cpus EXCEPT ![c] = Idle]
    /\ UNCHANGED <<dump_lock, dump_cpu, of_node, irq_domain, handlers, muxed_nr_banks, pin_banks, mmio,
                   wake_mask, irq_handler, mapped, gpio_out, save, muxed_data,
                   suspended, trace, nops>>

-----------------------------------------------------------------------------
(* Initialisation of the external interrupts of a controller *)

\* the state the initialisation functions work on
ProbeState == [mmio |-> mmio, trace |-> <<>>, ret |-> 0, returned |-> FALSE,
               pin_banks |-> pin_banks, irq_domain |-> irq_domain,
               handlers |-> handlers, muxed_data |-> muxed_data,
               muxed_nr_banks |-> muxed_nr_banks, muxed_banks |-> 0]

\* a return out of a loop
ReturnNow(s, r) == [s EXCEPT !.ret = r, !.returned = TRUE]

irq_domain_add_linear(s, b) ==
    [s EXCEPT !.irq_domain = @ \cup {b},
              !.trace = Append(@, Ev("irq_domain_add_linear", b, {}))]

irq_domain_remove(s, b) ==
    [s EXCEPT !.irq_domain = @ \ {b},
              !.trace = Append(@, Ev("irq_domain_remove", b, {}))]

\* what can go wrong in one run: nothing, or one allocation of a bank
NoFailure == [kind |-> "none", bank |-> -1]
Failure(kind, b) == [kind |-> kind, bank |-> b]

\* the err_domains loop stopping one bank early
RECURSIVE M_ErrDomains_stop_early(_, _)
M_ErrDomains_stop_early(s, i) ==
    IF i > 0
    THEN M_ErrDomains_stop_early(IF s.pin_banks[i].eint_type # "GPIO"
                                 THEN s
                                 ELSE irq_domain_remove(s, i),
                                 i - 1)
    ELSE s

\* the err_domains loop of exynos_eint_gpio_init, entered with i already
\* decremented
RECURSIVE ErrDomains(_, _)
ErrDomains(s, i) ==
    IF i >= 0
    THEN ErrDomains(IF s.pin_banks[i].eint_type # "GPIO"
                    THEN s
                    ELSE irq_domain_remove(s, i),
                    i - 1)
    ELSE s

RECURSIVE GpioInitLoop(_, _, _)
GpioInitLoop(s, fail, i) ==
    IF i < nr_banks
    THEN IF s.pin_banks[i].eint_type # "GPIO"
         THEN GpioInitLoop(s, fail, i + 1)
         ELSE IF fail = Failure("domain", i)
              THEN ReturnNow(ErrDomains(Log(s, Ev("dev_err", i, {})), i - 1), -ENXIO)
              ELSE LET s1 == irq_domain_add_linear(s, i)
                   IN  IF fail = Failure("alloc", i)
                       THEN ReturnNow(ErrDomains(irq_domain_remove(s1, i), i - 1),
                                      -ENOMEM)
                       ELSE GpioInitLoop(
                                exynos_eint_flt_config(
                                    EXYNOS_EINT_FLTCON_EN, EXYNOS_EINT_FLTCON_SEL, 0,
                                    Log(s1, Ev("devm_kzalloc", i, {})), i),
                                fail, i + 1)
    ELSE ReturnNow(s, 0)

exynos_eint_gpio_init(s, fail) ==
    IF ~of_node.irq
    THEN ReturnNow(Log(s, Ev("dev_err", -1, {})), -EINVAL)
    ELSE IF fail = Failure("request_irq", -1)
         THEN ReturnNow(Log(s, Ev("dev_err", -1, {})), -ENXIO)
         ELSE GpioInitLoop([s EXCEPT !.handlers = @ \cup {GpioBinding},
                                     !.trace = Append(@, Ev("devm_request_irq", -1, {}))],
                           fail, 0)

\* the loop over the pins giving up at the first line that does not resolve
RECURSIVE M_WeintLoop_break(_, _, _)
M_WeintLoop_break(s, b, idx) ==
    IF idx < pin_banks[b].nr_pins
    THEN IF <<b, idx>> \in of_node.unresolved
         THEN Log(s, Ev("dev_err", b, {idx}))
         ELSE M_WeintLoop_break(
                  [s EXCEPT !.handlers = @ \cup {DirectBinding(b, idx)},
                            !.trace = Append(@, Ev("irq_set_chained_handler",
                                                   b, {idx}))],
                  b, idx + 1)
    ELSE s

\* the loop over the pins of a direct wakeup bank
RECURSIVE WeintLoop(_, _, _)
WeintLoop(s, b, idx) ==
    IF idx < pin_banks[b].nr_pins
    THEN WeintLoop(IF <<b, idx>> \in of_node.unresolved
                   THEN Log(s, Ev("dev_err", b, {idx}))
                   ELSE [s EXCEPT !.handlers = @ \cup {DirectBinding(b, idx)},
                                  !.trace = Append(@, Ev("irq_set_chained_handler",
                                                         b, {idx}))],
                   b, idx + 1)
    ELSE s

\* the loop over the banks of exynos_eint_wkup_init
RECURSIVE WkupInitLoop(_, _, _)
WkupInitLoop(s, fail, i) ==
    IF i < nr_banks
    THEN IF s.pin_banks[i].eint_type # "WKUP"
         THEN WkupInitLoop(s, fail, i + 1)
         ELSE LET s1 == exynos_eint_flt_config(EXYNOS_EINT_FLTCON_EN,
                                               EXYNOS_EINT_FLTCON_SEL, 0, s, i)
                  s2 == irq_domain_add_linear(s1, i)
              IN  IF fail = Failure("domain", i)
                  THEN ReturnNow(Log(s1, Ev("dev_err", i, {})), -ENXIO)
                  ELSE IF i \notin of_node.interrupts
                       THEN WkupInitLoop(
                                [s2 EXCEPT !.pin_banks[i].eint_type = "WKUP_MUX",
                                           !.muxed_banks = @ + 1],
                                fail, i + 1)
                       ELSE IF fail = Failure("alloc", i)
                            THEN ReturnNow(Log(s2, Ev("dev_err", i, {})), -ENOMEM)
                            ELSE WkupInitLoop(
                                     WeintLoop(Log(s2, Ev("devm_kzalloc", i, {})), i, 0),
                                     fail, i + 1)
    ELSE s

\* the loop collecting every wakeup bank, direct or muxed
RECURSIVE M_MuxedCollect_any_wkup(_, _)
M_MuxedCollect_any_wkup(s, i) ==
    IF i < nr_banks
    THEN M_MuxedCollect_any_wkup(
             IF s.pin_banks[i].eint_type \notin {"WKUP", "WKUP_MUX"}
             THEN s
             ELSE [s EXCEPT !.muxed_data = Append(@, i),
                            !.trace = Append(@, Ev("muxed_bank", i, {}))],
             i + 1)
    ELSE s

\* the loop that fills muxed_data->banks
RECURSIVE MuxedCollect(_, _)
MuxedCollect(s, i) ==
    IF i < nr_banks
    THEN MuxedCollect(IF s.pin_banks[i].eint_type # "WKUP_MUX"
                      THEN s
                      ELSE [s EXCEPT !.muxed_data = Append(@, i),
                                     !.trace = Append(@, Ev("muxed_bank", i, {}))],
                      i + 1)
    ELSE s

\* the part of exynos_eint_wkup_init after the loop over the banks
WkupInitMuxed(s, fail) ==
    IF s.muxed_banks = 0
    THEN ReturnNow(s, 0)
    ELSE IF ~of_node.muxed_irq
         THEN ReturnNow(Log(s, Ev("dev_err", -1, {})), 0)
         ELSE IF fail = Failure("muxed_alloc", -1)
              THEN ReturnNow(Log(s, Ev("dev_err", -1, {})), -ENOMEM)
              ELSE LET s1 == [s EXCEPT !.handlers = @ \cup {MuxedBinding},
                                       !.muxed_data = <<>>,
                                       !.muxed_nr_banks = 0,
                                       !.trace = Append(Append(@,
                                           Ev("irq_set_chained_handler", -1, {})),
                                           Ev("irq_set_handler_data", -1, {}))]
                       s2 == MuxedCollect(s1, 0)
                   IN  ReturnNow([s2 EXCEPT !.muxed_nr_banks = s.muxed_banks,
                                            !.trace = Append(@, Ev("muxed_nr_banks",
                                                                   s.muxed_banks, {}))],
                                 0)

\* exynos_eint_wkup_init looking for the wakeup node only after the banks
M_exynos_eint_wkup_init_late_check(s, fail) ==
    LET s1 == WkupInitLoop(s, fail, 0)
    IN  IF ~of_node.wkup_np
        THEN ReturnNow(s1, -ENODEV)
        ELSE IF s1.returned THEN s1 ELSE WkupInitMuxed(s1, fail)

exynos_eint_wkup_init(s, fail) ==
    IF ~of_node.wkup_np
    THEN ReturnNow(s, -ENODEV)
    ELSE LET s1 == WkupInitLoop(s, fail, 0)
         IN  IF s1.returned THEN s1 ELSE WkupInitMuxed(s1, fail)

-----------------------------------------------------------------------------
(* _dump_stack of lib/dump_stack.c *)

\* the variables of the pin controller driver but for the operation count
driver == <<pin_banks, mmio, wake_mask, irq_type, irq_handler, mapped, gpio_irq,
            gpio_out, save, muxed_data, suspended, trace, last, of_node,
            irq_domain, handlers, muxed_nr_banks, cpus, slock>>

\* the innermost _dump_stack call of processor c, and a step of it
Depth(c) == Len(dump_cpu[c].calls)
Top(c) == dump_cpu[c].calls[Depth(c)]
At(c, pc) == Depth(c) > 0 /\ Top(c).pc = pc
Step(c, irqs, frame) ==
    dump_cpu' = [dump_cpu EXCEPT ![c] =
                    [irqs |-> irqs, calls |-> [@.calls EXCEPT ![Depth(c)] = frame]]]

\* processor c calls dump_stack: from a context with interrupts enabled or
\* disabled, from an interrupt taken while an earlier call of it waits with
\* its interrupts restored, or from inside __dump_stack of an earlier call
DumpCall(c, on) ==
    /\ nops < MaxDumps
    /\ Depth(c) < MaxNest
    /\ \/ Depth(c) = 0
       \/ At(c, "print") /\ on = dump_cpu[c].irqs
       \/ At(c, "spin") /\ dump_cpu[c].irqs /\ on
    /\ dump_cpu' = [dump_cpu EXCEPT ![c] =
                       [irqs |-> on,
                        calls |-> Append(@.calls, [pc |-> "retry", flags |-> FALSE,
                                                   was_locked |-> 0, entry |-> on])]]
    /\ nops' = nops + 1
    /\ UNCHANGED <<dump_lock, driver>>

\* retry: local_irq_save(flags)
DumpIrqSave(c) ==
    /\ At(c, "retry")
    /\ Step(c, FALSE, [Top(c) EXCEPT !.pc = "cmpxchg", !.flags = dump_cpu[c].irqs])
    /\ UNCHANGED <<dump_lock, driver, nops>>

\* atomic_cmpxchg(&dump_lock, -1, cpu) giving the lock to the caller whatever
\* it holds
M_DumpCmpxchg_steal(c) ==
    /\ At(c, "cmpxchg")
    /\ dump_lock' = c
    /\ Step(c, dump_cpu[c].irqs,
            [Top(c) EXCEPT !.pc = "print",
                           !.was_locked = IF dump_lock = c THEN 1 ELSE 0])
    /\ UNCHANGED <<driver, nops>>

\* old = atomic_cmpxchg(&dump_lock, -1, cpu) and the branches on old
DumpCmpxchg(c) ==
    /\ At(c, "cmpxchg")
    /\ LET old == dump_lock
       IN  /\ dump_lock' = IF old = -1 THEN c ELSE old
           /\ Step(c, dump_cpu[c].irqs,
                   IF old = -1 THEN [Top(c) EXCEPT !.pc = "print", !.was_locked = 0]
                   ELSE IF old = c
                        THEN [Top(c) EXCEPT !.pc = "print", !.was_locked = 1]
                        ELSE [Top(c) EXCEPT !.pc = "restore"])
    /\ UNCHANGED <<driver, nops>>

\* local_irq_restore(flags) of the processor that did not get the lock
DumpRestore(c) ==
    /\ At(c, "restore")
    /\ Step(c, Top(c).flags, [Top(c) EXCEPT !.pc = "spin"])
    /\ UNCHANGED <<dump_lock, driver, nops>>

\* do { cpu_relax(); } while (atomic_read(&dump_lock) != -1); goto retry
DumpSpin(c) ==
    /\ At(c, "spin")
    /\ dump_lock = -1
    /\ Step(c, dump_cpu[c].irqs, [Top(c) EXCEPT !.pc = "retry"])
    /\ UNCHANGED <<dump_lock, driver, nops>>

\* __dump_stack() has printed
DumpPrint(c) ==
    /\ At(c, "print")
    /\ Step(c, dump_cpu[c].irqs, [Top(c) EXCEPT !.pc = "unlock"])
    /\ UNCHANGED <<dump_lock, driver, nops>>

\* the release of the lock by every call, nested or not
M_DumpUnlock_always(c) ==
    /\ At(c, "unlock")
    /\ dump_lock' = -1
    /\ Step(c, dump_cpu[c].irqs, [Top(c) EXCEPT !.pc = "exit"])
    /\ UNCHANGED <<driver, nops>>

\* a _dump_stack that never sets dump_lock back to -1
M_DumpUnlock_never(c) ==
    /\ At(c, "unlock")
    /\ dump_lock' = dump_lock
    /\ Step(c, dump_cpu[c].irqs, [Top(c) EXCEPT !.pc = "exit"])
    /\ UNCHANGED <<driver, nops>>

\* if (!was_locked) atomic_set(&dump_lock, -1)
DumpUnlock(c) ==
    /\ At(c, "unlock")
    /\ dump_lock' = IF Top(c).was_locked = 0 THEN -1 ELSE dump_lock
    /\ Step(c, dump_cpu[c].irqs, [Top(c) EXCEPT !.pc = "exit"])
    /\ UNCHANGED <<driver, nops>>

\* local_irq_restore(flags) and the return
DumpReturn(c) ==
    /\ At(c, "exit")
    /\ dump_cpu' = [dump_cpu EXCEPT ![c] =
                       [irqs |-> Top(c).flags,
                        calls |-> SubSeq(@.calls, 1, Depth(c) - 1)]]
    /\ UNCHANGED <<dump_lock, driver, nops>>

-----------------------------------------------------------------------------
(* Specifications *)

\* the wakeup initialisation reclassifies the banks without such a list
WkupClassify(banks) ==
    [b \in DOMAIN banks |->
        IF banks[b].eint_type = "WKUP" /\ banks[b].name \notin OfInterrupts
        THEN [banks[b] EXCEPT !.eint_type = "WKUP_MUX"]
        ELSE banks[b]]

\* and collects them, in table order, as the muxed handler's context
RECURSIVE MuxedBanks(_, _)
MuxedBanks(banks, i) ==
    IF i < Cardinality(DOMAIN banks)
    THEN (IF banks[i].eint_type = "WKUP_MUX" THEN <<i>> ELSE <<>>)
             \o MuxedBanks(banks, i + 1)
    ELSE <<>>

exynos7880_alive == WkupClassify(exynos7880_pin_banks0)

\* chip operations on the lines of the DISPAUD controller
InitChip ==
    InitDriver(exynos7880_pin_banks2,
               {RegFile(exynos7880_pin_banks2, pat, pat) : pat \in Patterns},
               Consumers(exynos7880_pin_banks2), <<>>)

NextChip ==
    /\ nops < MaxOps
    /\ \E b \in BankIds, p \in 0..7 :
        \/ Mask(b, p)
        \/ Unmask(b, p)
        \/ Ack(b, p)
        \/ HwEvent(b, p)
        \/ \E type \in TriggerKinds : SetType(b, p, type)

SpecChip == InitChip /\ [][NextChip]_vars

\* claiming and releasing the pins of the DISPAUD controller
NextRes ==
    /\ nops < MaxResOps
    /\ \E b \in BankIds, p \in 0..7 :
        \/ RequestResources(b, p)
        \/ ReleaseResources(b, p)
        \/ GpioOutput(b, p)
        \/ GpioInput(b, p)

SpecRes == InitChip /\ [][NextRes]_vars

\* the wake mask of the ALIVE controller
InitAlive ==
    InitDriver(exynos7880_alive,
               {RegFile(exynos7880_alive, pat, pend) :
                    pat \in Patterns, pend \in PendPatterns},
               Consumers(exynos7880_alive), MuxedBanks(exynos7880_alive, 0))

InitWake ==
    InitDriver(exynos7880_alive,
               {RegFile(exynos7880_alive, {}, {})},
               EintLinesOf(exynos7880_alive), MuxedBanks(exynos7880_alive, 0))

NextWake ==
    /\ nops < MaxWakeOps
    /\ \E b \in BankIds, p \in 0..7, on \in {0, 1} : SetWake(b, p, on)

SpecWake == InitWake /\ [][NextWake]_vars

\* the wake mask of the exynos7870 ALIVE controller
exynos7870_alive == WkupClassify(exynos7870_pin_banks0)

InitWake7870 ==
    InitDriver(exynos7870_alive,
               {RegFile(exynos7870_alive, {}, {})},
               EintLinesOf(exynos7870_alive), MuxedBanks(exynos7870_alive, 0))

SpecWake7870 == InitWake7870 /\ [][NextWake]_vars

\* chip operations on the lines of the exynos7870 ALIVE controller
InitChip7870 ==
    InitDriver(exynos7870_alive,
               {RegFile(exynos7870_alive, pat, pat) : pat \in Patterns},
               Consumers(exynos7870_alive), MuxedBanks(exynos7870_alive, 0))

SpecChip7870 == InitChip7870 /\ [][NextChip]_vars

\* suspend and resume of the CCORE and FSYS controllers (GPIO banks) and of
\* the ALIVE controller (wakeup banks)
InitPm ==
    \/ InitDriver(exynos7880_pin_banks1,
                  {RegFile(exynos7880_pin_banks1, pat, pat) : pat \in Patterns},
                  Consumers(exynos7880_pin_banks1), <<>>)
    \/ InitDriver(exynos7880_pin_banks4,
                  {RegFile(exynos7880_pin_banks4, pat, pat) : pat \in Patterns},
                  Consumers(exynos7880_pin_banks4), <<>>)
    \/ InitDriver(exynos7880_alive,
                  {RegFile(exynos7880_alive, pat, pat) : pat \in Patterns},
                  Consumers(exynos7880_alive), MuxedBanks(exynos7880_alive, 0))

NextPm ==
    /\ nops < MaxPmOps
    /\ \/ Suspend
       \/ Resume
       \/ \E pat \in Patterns : PowerLoss(pat)
       \/ \E b \in BankIds, p \in 0..7 :
              /\ ~suspended
              /\ p = 0
              /\ SetType(b, p, IRQ_TYPE_EDGE_BOTH)

SpecPm == InitPm /\ [][NextPm]_vars

\* the primary GPIO handler of the FSYS controller
InitGpioIrq ==
    InitDriver(exynos7880_pin_banks4,
               {RegFile(exynos7880_pin_banks4, pat, pat) : pat \in Patterns},
               Consumers(exynos7880_pin_banks4), <<>>)

NextGpioIrq ==
    /\ nops < MaxIrqOps
    /\ \/ \E g \in 0..(nr_banks + 1), p \in 0..7 : HwService(g, p)
       \/ \E b \in BankIds, p \in 0..7 : RequestResources(b, p)
       \/ GpioIrq

SpecGpioIrq == InitGpioIrq /\ [][NextGpioIrq]_vars

\* the muxed wakeup handler of the ALIVE controller
NextMux ==
    /\ nops < MaxIrqOps
    /\ \/ \E b \in BankIds, p \in 0..7 :
              \/ Mask(b, p)
              \/ Unmask(b, p)
              \/ HwEvent(b, p)
              \/ RequestResources(b, p)
       \/ DemuxEint16_31

SpecMux == InitAlive /\ [][NextMux]_vars

\* the direct wakeup handler of the ALIVE controller
NextDirect ==
    /\ nops < MaxIrqOps
    /\ \/ \E b \in BankIds, p \in 0..7 :
              \/ HwEvent(b, p)
              \/ RequestResources(b, p)
              \/ \E type \in {IRQ_TYPE_EDGE_BOTH, IRQ_TYPE_LEVEL_LOW} : SetType(b, p, type)
       \/ \E h \in handlers, has_ack \in BOOLEAN : Eint0_15(h, has_ack)

SpecDirect == InitAlive /\ [][NextDirect]_vars

\* the filter configurator on the ALIVE controller whose filter registers
\* still hold what reset or the boot loader left in them: one content in the
\* primary registers, another in the paired ones
InitFlt ==
    /\ pin_banks = exynos7880_alive
    /\ of_node = DefaultNode(exynos7880_alive)
    /\ irq_domain = {}
    /\ handlers = {}
    /\ muxed_nr_banks = 0
    /\ mmio \in {[a \in Addrs(exynos7880_alive) |->
                     IF \E b \in DOMAIN exynos7880_alive :
                            a = EXYNOS_GPIO_EFLTCON_OFFSET
                                    + 2 * exynos7880_alive[b].eint_offset + 4
                     THEN paired ELSE pat] : pat \in Patterns, paired \in Patterns}
    /\ wake_mask = Bits32
    /\ irq_type = [l \in LinesOf(exynos7880_alive) |-> IRQ_TYPE_NONE]
    /\ irq_handler = [l \in LinesOf(exynos7880_alive) |-> "level"]
    /\ mapped = {}
    /\ gpio_irq = {}
    /\ gpio_out = {}
    /\ save = [b \in DOMAIN exynos7880_alive |-> ZeroSave]
    /\ muxed_data = <<>>
    /\ suspended = FALSE
    /\ trace = <<>>
    /\ last = NoOp
    /\ nops = 0
    /\ cpus = [c \in CPUs |-> Idle]
    /\ dump_lock = -1
    /\ dump_cpu = [c \in CPUs |-> NoDump]
    /\ slock = [b \in DOMAIN exynos7880_alive |-> -1]

NextFlt ==
    /\ nops < MaxFltOps
    /\ \E b \in BankIds, en \in {0, 1}, sel \in {0, 1}, width \in {0, 5} :
           FltConfig(b, en, sel, width)

SpecFlt == InitFlt /\ [][NextFlt]_vars

\* chip operations of two processors on two lines of bank gpa0 of the ALIVE
\* controller: one processor works on pin 0, the other on the last pin
CpuLines(c) == IF c = 0 THEN {<<2, 0>>} ELSE {<<2, 7>>}

OpArgs(op) ==
    CASE op = "set_type" -> {IRQ_TYPE_EDGE_BOTH, IRQ_TYPE_LEVEL_LOW}
      [] op = "set_wake" -> {0, 1}
      [] OTHER -> {0}

InitConc ==
    InitDriver(exynos7880_alive,
               {RegFile(exynos7880_alive, pat, pat) : pat \in Patterns},
               Consumers(exynos7880_alive), MuxedBanks(exynos7880_alive, 0))

NextConc ==
    \E c \in CPUs :
        \/ \E op \in {"mask", "unmask", "request", "release", "set_type", "set_wake"},
              l \in CpuLines(c) :
                  \E arg \in OpArgs(op) : CpuBegin(c, op, l[1], l[2], arg)
        \/ CpuLock(c)
        \/ CpuRead(c)
        \/ CpuWrite(c)
        \/ CpuReturn(c)

SpecConc == InitConc /\ [][NextConc]_vars

\* a processor inside an operation keeps running, and spin_lock_irqsave
\* gets the lock if it is free again and again
SpecConcFair ==
    /\ SpecConc
    /\ \A c \in CPUs : /\ WF_vars(CpuRead(c) \/ CpuWrite(c) \/ CpuReturn(c))
                       /\ SF_vars(CpuLock(c))

\* the probe of a controller: exynos_eint_gpio_init, then, for a controller
\* that has one, exynos_eint_wkup_init; the result of the first is ignored
CommitProbe(s, op, fail) ==
    /\ mmio' = s.mmio
    /\ pin_banks' = s.pin_banks
    /\ irq_domain' = s.irq_domain
    /\ handlers' = s.handlers
    /\ muxed_data' = s.muxed_data
    /\ muxed_nr_banks' = s.muxed_nr_banks
    /\ trace' = s.trace
    /\ last' = [op |-> op, bank |-> -1, pin |-> -1, arg |-> fail, ret |-> s.ret]
    /\ nops' = nops + 1
    /\ UNCHANGED <<dump_lock, dump_cpu, cpus, slock, of_node, wake_mask, irq_type, irq_handler, mapped, gpio_irq,
                   gpio_out, save, suspended>>

BanksOfType(t) == {b \in BankIds : pin_banks[b].eint_type = t}

GpioFailures ==
    {NoFailure, Failure("request_irq", -1)}
        \cup {Failure(k, b) : k \in {"domain", "alloc"}, b \in BanksOfType("GPIO")}

WkupFailures ==
    {NoFailure, Failure("muxed_alloc", -1)}
        \cup {Failure(k, b) : k \in {"domain", "alloc"}, b \in BanksOfType("WKUP")}

\* the controllers whose samsung_pin_ctrl entry sets eint_wkup_init
HasWkupInit == pin_banks[0].name \in {"etc0", "gpe0"}

EintGpioInit ==
    /\ last.op = "none"
    /\ \E fail \in GpioFailures :
           CommitProbe(exynos_eint_gpio_init(ProbeState, fail), "gpio_init", fail)

EintWkupInit ==
    /\ last.op = "gpio_init"
    /\ HasWkupInit
    /\ \E fail \in WkupFailures :
           CommitProbe(exynos_eint_wkup_init(ProbeState, fail), "wkup_init", fail)

\* exynos_eint_wkup_init up to the point where the muxed handler is bound to
\* its physical line (602); a run that returns before that point is complete
WkupInitBind(fail) ==
    /\ last.op = "gpio_init"
    /\ HasWkupInit
    /\ LET full == exynos_eint_wkup_init(ProbeState, fail)
           s1 == WkupInitLoop(ProbeState, fail, 0)
       IN  IF MuxedBinding \notin full.handlers
           THEN CommitProbe(full, "wkup_init", fail)
           ELSE /\ mmio' = s1.mmio
                /\ pin_banks' = s1.pin_banks
                /\ irq_domain' = s1.irq_domain
                /\ handlers' = s1.handlers \cup {MuxedBinding}
                /\ muxed_data' = <<>>
                /\ muxed_nr_banks' = 0
                /\ trace' = Append(s1.trace, Ev("irq_set_chained_handler", -1, {}))
                /\ last' = [op |-> "wkup_init_bind", bank |-> -1, pin |-> -1,
                            arg |-> fail, ret |-> 0]
                /\ nops' = nops + 1
                /\ cpus' = [cpus EXCEPT ![0] = [pc |-> "set_data", op |-> "wkup_init",
                                                bank |-> 0, pin |-> -1,
                                                arg |-> s1.muxed_banks, tmp |-> {}]]
                /\ UNCHANGED <<dump_lock, dump_cpu, slock, of_node, wake_mask, irq_type, irq_handler,
                               mapped, gpio_irq, gpio_out, save, suspended>>

\* the statements of exynos_eint_wkup_init after that point, one at a time:
\* irq_set_handler_data (603), the iterations of the loop that fills
\* muxed_data->banks (605-612), and the assignment of nr_banks (613); a
\* null dereference in the interrupt handler stops the machine
WkupInitMuxedStep ==
    /\ cpus[0].op = "wkup_init"
    /\ \A k \in DOMAIN trace : trace[k].ev # "oops"
    /\ LET me == cpus[0]
       IN  CASE me.pc = "set_data" ->
                  /\ cpus' = [cpus EXCEPT ![0].pc = "fill"]
                  /\ UNCHANGED <<muxed_data, muxed_nr_banks, last>>
             [] me.pc = "fill" /\ me.bank < nr_banks ->
                  /\ muxed_data' = IF pin_banks[me.bank].eint_type = "WKUP_MUX"
                                   THEN Append(muxed_data, me.bank)
                                   ELSE muxed_data
                  /\ cpus' = [cpus EXCEPT ![0].bank = me.bank + 1]
                  /\ UNCHANGED <<muxed_nr_banks, last>>
             [] me.pc = "fill" /\ me.bank >= nr_banks ->
                  /\ muxed_nr_banks' = me.arg
                  /\ cpus' = [cpus EXCEPT ![0] = Idle]
                  /\ last' = [op |-> "wkup_init", bank |-> -1, pin |-> -1,
                              arg |-> last.arg, ret |-> 0]
                  /\ UNCHANGED muxed_data
    /\ UNCHANGED <<dump_lock, dump_cpu, slock, of_node, irq_domain, handlers, pin_banks, mmio, wake_mask,
                   irq_type, irq_handler, mapped, gpio_irq, gpio_out, save,
                   suspended, trace, nops>>

\* the physical line of the muxed banks fires while the handler has no data
\* or the first bank of its data is not filled in: eintd->banks[0]->drvdata
\* (481) dereferences a null pointer
DemuxNull ==
    /\ MuxedBinding \in handlers
    /\ muxed_data = <<>>
    /\ last.op # "demux"
    /\ trace' = <<Ev("oops", 0, {})>>
    /\ last' = [op |-> "demux", bank |-> -1, pin |-> -1, arg |-> 0, ret |-> 0]
    /\ nops' = nops + 1
    /\ UNCHANGED <<dump_lock, dump_cpu, cpus, slock, of_node, irq_domain, handlers, muxed_nr_banks,
                   pin_banks, mmio, wake_mask, irq_type, irq_handler, mapped,
                   gpio_irq, gpio_out, save, muxed_data, suspended>>

\* a wakeup initialisation that stores more banks than it allocated room for
\* writes behind the allocation; besides going on as if nothing happened
\* (EintWkupInit) the run may fault
WkupInitSmash ==
    /\ last.op = "gpio_init"
    /\ HasWkupInit
    /\ \E fail \in WkupFailures :
           LET full == exynos_eint_wkup_init(ProbeState, fail)
           IN  /\ Len(full.muxed_data) > full.muxed_banks
               /\ CommitProbe(Log(full, Ev("oops", 0, {})), "wkup_init", fail)

\* the device is unbound and probed again: the driver data of the device is
\* gone, the table of banks, which is static data of the driver, stays as
\* the earlier initialisation left it
Reprobe ==
    /\ last.op = "wkup_init"
    /\ nops < 3 * (MaxProbes - 1)
    /\ \A k \in DOMAIN trace : trace[k].ev # "oops"
    /\ handlers' = {}
    /\ muxed_data' = <<>>
    /\ muxed_nr_banks' = 0
    /\ trace' = <<>>
    /\ last' = NoOp
    /\ nops' = nops + 1
    /\ UNCHANGED <<dump_lock, dump_cpu, cpus, slock, of_node, irq_domain, pin_banks, mmio, wake_mask,
                   irq_type, irq_handler, mapped, gpio_irq, gpio_out, save, suspended>>

\* the device trees considered for a bank table: with and without the
\* controller's interrupt and the wakeup node, several choices of the banks
\* that list their physical lines, and of the lines that do not resolve
RawWkup(banks) == {b \in DOMAIN banks : banks[b].eint_type = "WKUP"}

FirstWkup(banks) == CHOOSE b \in RawWkup(banks) : \A c \in RawWkup(banks) : b <= c

InterruptsChoices(banks) ==
    IF RawWkup(banks) = {} THEN {{}}
    ELSE {{}, RawWkup(banks),
          {FirstWkup(banks), FirstWkup(banks) + 1},
          {FirstWkup(banks) + 1, FirstWkup(banks) + 3}}

UnresolvedChoices(banks) ==
    IF RawWkup(banks) = {} THEN {{}}
    ELSE {{}, {<<FirstWkup(banks) + 1, 1>>},
          {<<FirstWkup(banks), 0>>, <<FirstWkup(banks) + 3, 4>>}}

Nodes(banks) ==
    {[irq |-> i, wkup_np |-> w, interrupts |-> p, unresolved |-> u, muxed_irq |-> m] :
        i \in BOOLEAN, w \in (IF RawWkup(banks) = {} THEN {FALSE} ELSE BOOLEAN),
        p \in InterruptsChoices(banks), u \in UnresolvedChoices(banks),
        m \in (IF RawWkup(banks) = {} THEN {FALSE} ELSE BOOLEAN)}

\* a controller before its probe
InitProbe(banks) ==
    /\ pin_banks = banks
    /\ of_node \in Nodes(banks)
    /\ mmio \in {RegFile(banks, pat, {}) : pat \in {{}, Bits32}}
    /\ wake_mask = Bits32
    /\ irq_type = [l \in LinesOf(banks) |-> IRQ_TYPE_NONE]
    /\ irq_handler = [l \in LinesOf(banks) |-> "level"]
    /\ mapped = {}
    /\ gpio_irq = {}
    /\ gpio_out = {}
    /\ save = [b \in DOMAIN banks |-> ZeroSave]
    /\ muxed_data = <<>>
    /\ muxed_nr_banks = 0
    /\ irq_domain = {}
    /\ handlers = {}
    /\ suspended = FALSE
    /\ trace = <<>>
    /\ last = NoOp
    /\ nops = 0
    /\ cpus = [c \in CPUs |-> Idle]
    /\ dump_lock = -1
    /\ dump_cpu = [c \in CPUs |-> NoDump]
    /\ slock = [b \in DOMAIN banks |-> -1]

\* the probe of the exynos7880 ALIVE and FSYS controllers and of the second
\* exynos3250 controller, whose table mixes all kinds of banks
InitInit ==
    \/ InitProbe(exynos7880_pin_banks0)
    \/ InitProbe(exynos7880_pin_banks4)
    \/ InitProbe(exynos3250_pin_banks1)

NextInit == EintGpioInit \/ EintWkupInit

SpecInit == InitInit /\ [][NextInit]_vars

\* the ALIVE controller probed, unbound and probed again, its device tree
\* complete
InitReinit ==
    /\ InitProbe(exynos7880_pin_banks0)
    /\ of_node.irq /\ of_node.wkup_np /\ of_node.muxed_irq
    /\ of_node.unresolved = {}
    /\ mmio[EXYNOS_SVC_OFFSET] = {}

NextReinit == EintGpioInit \/ EintWkupInit \/ WkupInitSmash \/ Reprobe

SpecReinit == InitReinit /\ [][NextReinit]_vars

\* the probe of the second exynos3250 controller with the wakeup initialisation taken
\* statement by statement once the muxed handler is bound, and the physical
\* line of the muxed banks firing in between
NextInitIrq ==
    \/ EintGpioInit
    \/ \E fail \in WkupFailures : WkupInitBind(fail)
    \/ WkupInitMuxedStep
    \/ DemuxNull
    \/ (last.op # "demux" /\ MuxedBinding \in handlers /\ DemuxEint16_31)

SpecInitIrq == InitProbe(exynos3250_pin_banks1) /\ [][NextInitIrq]_vars

\* dump_stack called on two processors, the pin controller at rest
InitDump == InitChip

NextDump ==
    \E c \in CPUs :
        \/ \E on \in BOOLEAN : DumpCall(c, on)
        \/ DumpIrqSave(c)
        \/ DumpCmpxchg(c)
        \/ DumpRestore(c)
        \/ DumpSpin(c)
        \/ DumpPrint(c)
        \/ DumpUnlock(c)
        \/ DumpReturn(c)

SpecDump == InitDump /\ [][NextDump]_vars

\* a processor inside _dump_stack keeps executing
SpecDumpFair ==
    /\ SpecDump
    /\ \A c \in CPUs :
           WF_vars(DumpIrqSave(c) \/ DumpCmpxchg(c) \/ DumpRestore(c) \/ DumpSpin(c)
                       \/ DumpPrint(c) \/ DumpUnlock(c) \/ DumpReturn(c))

-----------------------------------------------------------------------------
(* Properties *)

Events(tr, kind) == {i \in DOMAIN tr : tr[i].ev = kind}
WritesTo(tr, a) == {i \in DOMAIN tr : tr[i].ev = "writel" /\ tr[i].a = a}

SupportedKinds == {IRQ_TYPE_EDGE_RISING, IRQ_TYPE_EDGE_FALLING, IRQ_TYPE_EDGE_BOTH,
                   IRQ_TYPE_LEVEL_HIGH, IRQ_TYPE_LEVEL_LOW}

\* the hardware trigger code of a supported kind
HwCode(kind) ==
    CASE kind = IRQ_TYPE_EDGE_RISING -> EXYNOS_EINT_EDGE_RISING
      [] kind = IRQ_TYPE_EDGE_FALLING -> EXYNOS_EINT_EDGE_FALLING
      [] kind = IRQ_TYPE_EDGE_BOTH -> EXYNOS_EINT_EDGE_BOTH
      [] kind = IRQ_TYPE_LEVEL_HIGH -> EXYNOS_EINT_LEVEL_HIGH
      [] kind = IRQ_TYPE_LEVEL_LOW -> EXYNOS_EINT_LEVEL_LOW

ConField(p) == {i \in Bits32 : i >= p * EXYNOS_EINT_CON_LEN
                                /\ i < (p + 1) * EXYNOS_EINT_CON_LEN}

\* C1: set_trigger_type of a supported kind succeeds, and after it the
\* control register of the bank holds the kind's hardware code in the field
\* at bit line * field_width, every bit outside that field being unchanged.
C1_SetTypeProgramsField ==
    [][last'.op = "set_type" =>
          LET b == last'.bank
              p == last'.pin
          IN  /\ last'.arg \in SupportedKinds <=> last'.ret = 0
              /\ last'.ret = 0 =>
                    /\ Field(mmio'[ConReg(b)], p * EXYNOS_EINT_CON_LEN,
                             EXYNOS_EINT_CON_LEN) = HwCode(last'.arg)
                    /\ mmio'[ConReg(b)] \ ConField(p) = mmio[ConReg(b)] \ ConField(p)
                    /\ \A a \in DOMAIN mmio : a # ConReg(b) => mmio'[a] = mmio[a]]_vars

C1_Witness ==
    /\ last.op = "set_type" /\ last.ret = 0 /\ last.pin > 0
    /\ last.arg = IRQ_TYPE_EDGE_BOTH
    /\ mmio[ConReg(last.bank)] = (Bits32 \ ConField(last.pin))
                                    \cup Shl(U32(EXYNOS_EINT_EDGE_BOTH),
                                             last.pin * EXYNOS_EINT_CON_LEN)

\* C2: unmask of a line configured level-high or level-low writes the
\* line's bit to the pending register exactly once, and only afterwards
\* writes the mask register with the line's bit clear.
C2_LevelUnmaskAcksFirst ==
    (last.op = "unmask"
        /\ irq_type[<<last.bank, last.pin>>] \in {IRQ_TYPE_LEVEL_HIGH, IRQ_TYPE_LEVEL_LOW})
    => LET acks == WritesTo(trace, PendReg(last.bank))
           unmasks == WritesTo(trace, MaskReg(last.bank))
       IN  /\ Cardinality(acks) = 1
           /\ Cardinality(unmasks) = 1
           /\ \A i \in acks, j \in unmasks :
                 /\ i < j
                 /\ trace[i].v = {last.pin}
                 /\ last.pin \notin trace[j].v
           /\ last.pin \notin mmio[PendReg(last.bank)]
           /\ last.pin \notin mmio[MaskReg(last.bank)]

C2_Witness ==
    /\ last.op = "unmask"
    /\ irq_type[<<last.bank, last.pin>>] = IRQ_TYPE_LEVEL_HIGH
    /\ mmio[PendReg(last.bank)] = Bits32 \ {last.pin}
    /\ mmio[MaskReg(last.bank)] = Bits32 \ {last.pin}

\* the set bits of a value, highest first
RECURSIVE Descending(_)
Descending(bits) ==
    IF bits = {} THEN <<>>
    ELSE LET m == CHOOSE x \in bits : \A y \in bits : y <= x
         IN  <<m>> \o Descending(bits \ {m})

\* the lines the muxed handler has to dispatch from register block m: for
\* every bank of the group in order, the unmasked pending bits, highest first
RECURSIVE MuxedDue(_, _)
MuxedDue(m, i) ==
    IF i > Len(muxed_data) THEN <<>>
    ELSE LET b == muxed_data[i]
             due == Descending(m[PendReg(b)] \ m[MaskReg(b)])
         IN  [k \in 1..Len(due) |-> <<b, due[k]>>] \o MuxedDue(m, i + 1)

IsLookup(e) == e.ev = "irq_find_mapping"

\* C3: one run of the muxed handler looks up and dispatches, bank by bank
\* in group order and highest bit first, exactly the lines whose bit is set
\* in pending & ~mask, each once, between chained-enter and chained-exit.
C3_MuxedDispatchOrder ==
    [][last'.op = "demux" =>
          LET due == MuxedDue(mmio, 1)
              looked == SelectSeq(trace', IsLookup)
          IN  /\ Len(looked) = Len(due)
              /\ \A k \in 1..Len(due) :
                    looked[k].a = due[k][1] /\ looked[k].v = {due[k][2]}
              /\ Cardinality(Events(trace', "generic_handle_irq")) = Len(due)
              /\ \A i \in Events(trace', "irq_find_mapping") :
                    /\ trace'[i + 1].ev = "generic_handle_irq"
                    /\ \A q \in trace'[i].v :
                          trace'[i + 1].a = irq_find_mapping(trace'[i].a, q)
              /\ trace'[1].ev = "chained_irq_enter"
              /\ trace'[Len(trace')].ev = "chained_irq_exit"
              /\ Cardinality(Events(trace', "chained_irq_exit")) = 1]_vars

C3_Witness ==
    /\ last.op = "demux"
    /\ Cardinality(Events(trace, "generic_handle_irq")) >= 3
    /\ \E i, j \in Events(trace, "irq_find_mapping") :
          /\ i < j
          /\ trace[i].a # trace[j].a
          /\ trace[i + 1].a = Virq(trace[i].a, 7)

GpioBanks == {b \in BankIds : pin_banks[b].eint_type = "GPIO"}

SavedRegs(m, b) == [eint_con |-> m[ConReg(b)],
                    eint_fltcon0 |-> m[FltReg(b)],
                    eint_fltcon1 |-> m[FltReg(b) + 4]]

\* C4: suspend stores the control and the two filter registers of every GPIO
\* bank, replacing an earlier snapshot; resume writes exactly those values
\* back; so a suspend directly followed by resume leaves the three registers
\* as they were.
C4_SuspendResumeRestores ==
    [][/\ last'.op = "suspend" =>
             \A b \in GpioBanks : save'[b] = SavedRegs(mmio, b)
       /\ last'.op = "resume" =>
             \A b \in GpioBanks : SavedRegs(mmio', b) = save[b]
       /\ (last.op = "suspend" /\ last'.op = "resume") =>
             \A b \in GpioBanks : SavedRegs(mmio', b) = SavedRegs(mmio, b)]_vars

C4_Witness ==
    /\ last.op = "resume"
    /\ \E b \in GpioBanks :
          /\ SavedRegs(mmio, b) = save[b]
          /\ mmio[ConReg(b)] = Bits32
          /\ mmio[MaskReg(b)] = {}

\* C5: the wake mask starts with all 32 bits set; set_wake(line, true)
\* clears exactly bit eint_offset*2 + pin, set_wake(line, false) sets
\* exactly that bit, and no other bit changes.
C5_WakeMaskBit ==
    /\ [](nops = 0 => wake_mask = Bits32)
    /\ [][last'.op = "set_wake" =>
             LET pos == pin_banks[last'.bank].eint_offset * 2 + last'.pin
             IN  /\ pos \in Bits32
                 /\ last'.arg = 1 => wake_mask' = wake_mask \ {pos}
                 /\ last'.arg = 0 => wake_mask' = wake_mask \cup {pos}]_vars

C5_Witness ==
    /\ last.op = "set_wake" /\ last.arg = 1
    /\ pin_banks[last.bank].eint_offset = 4 /\ last.pin = 1
    /\ wake_mask = Bits32 \ {9}

\* C6: when the service register reports group g >= 1 and pin p, and pin p
\* of bank g - 1 has a virtual line, the primary GPIO handler dispatches
\* exactly once, that line, and returns IRQ_HANDLED.
C6_GpioDispatchOnce ==
    \A g \in 1..31, p \in 0..7 :
        (/\ last.op = "gpio_irq"
         /\ BitAnd(mmio[EXYNOS_SVC_OFFSET], U32(255)) = U32(8 * g + p)
         /\ <<g - 1, p>> \in mapped)
        => /\ last.ret = IRQ_HANDLED
           /\ Cardinality(Events(trace, "generic_handle_irq")) = 1
           /\ \A i \in Events(trace, "generic_handle_irq") :
                 trace[i].a = Virq(g - 1, p)

C6_Witness ==
    /\ last.op = "gpio_irq" /\ last.ret = IRQ_HANDLED
    /\ mmio[EXYNOS_SVC_OFFSET] = U32(8 * 2 + 7)
    /\ pin_banks[1].nr_pins = 8
    /\ <<1, 7>> \in mapped
    /\ \E i \in Events(trace, "generic_handle_irq") : trace[i].a = Virq(1, 7)

\* C7: mask of a line whose mask bit is set, and unmask of a line whose
\* mask bit is clear, leave the mask register of the bank as it was.
C7_MaskUnmaskIdempotent ==
    [][LET b == last'.bank
           p == last'.pin
       IN  /\ (last'.op = "mask" /\ p \in mmio[MaskReg(b)])
                 => mmio'[MaskReg(b)] = mmio[MaskReg(b)]
           /\ (last'.op = "unmask" /\ p \notin mmio[MaskReg(b)])
                 => mmio'[MaskReg(b)] = mmio[MaskReg(b)]]_vars

C7_Witness ==
    /\ last.op = "mask"
    /\ nops = 2
    /\ \E i \in Events(trace, "readl") : last.pin \in trace[i].v
    /\ mmio[MaskReg(last.bank)] = {last.pin}

\* C8: release_resource of a line that was claimed leaves the pin's
\* function-select field at the plain-input code, whatever it held before
\* the claim, and the pin no longer locked as interrupt.
C8_ClaimReleaseInput ==
    [][last'.op = "release" =>
          LET b == last'.bank
              p == last'.pin
          IN  /\ <<b, p>> \in gpio_irq
              /\ Field(mmio'[FuncReg(b)], p * FuncWidth(b), FuncWidth(b)) = FUNC_INPUT
              /\ <<b, p>> \notin gpio_irq']_vars

C8_Witness ==
    /\ last.op = "release" /\ nops = 2 /\ last.pin > 0
    /\ Field(mmio[FuncReg(last.bank)], last.pin * FuncWidth(last.bank),
             FuncWidth(last.bank)) = FUNC_INPUT
    /\ Cardinality(mmio[FuncReg(last.bank)]) = 32 - FuncWidth(last.bank)
    /\ <<last.bank, last.pin>> \notin gpio_irq

\* C9: set_trigger_type with a kind outside the five supported ones returns
\* -EINVAL, writes no register and leaves the flow handler of the line alone.
C9_InvalidTypeRejected ==
    [][(last'.op = "set_type" /\ last'.arg \notin SupportedKinds) =>
          /\ last'.ret = -EINVAL
          /\ mmio' = mmio
          /\ Events(trace', "writel") = {}
          /\ irq_handler' = irq_handler
          /\ irq_type' = irq_type]_vars

C9_Witness ==
    /\ last.op = "set_type" /\ last.ret = -EINVAL
    /\ last.arg = IRQ_TYPE_EDGE_RISING + IRQ_TYPE_LEVEL_HIGH
    /\ irq_handler[<<last.bank, last.pin>>] = "edge"
    /\ irq_type[<<last.bank, last.pin>>] = IRQ_TYPE_EDGE_RISING

\* C10: when the GPIO layer refuses to lock the pin, claim_resource returns
\* that failure and changes nothing: no register bit, no ownership, and the
\* bank lock is not taken.
C10_BusyClaimChangesNothing ==
    [][(last'.op = "request" /\ <<last'.bank, last'.pin>> \in gpio_out) =>
          /\ last'.ret = -EIO
          /\ mmio' = mmio
          /\ gpio_irq' = gpio_irq
          /\ Events(trace', "lock") = {}
          /\ Events(trace', "writel") = {}]_vars

C10_Witness ==
    /\ last.op = "request" /\ last.ret # 0
    /\ <<last.bank, last.pin>> \in gpio_out
    /\ Field(mmio[FuncReg(last.bank)], last.pin * FuncWidth(last.bank),
             FuncWidth(last.bank)) = FUNC_OUTPUT

\* the group and the pin the service register reports
SvcGroup == Field(mmio[EXYNOS_SVC_OFFSET], EXYNOS_SVC_GROUP_SHIFT, 5)
SvcPin == Field(mmio[EXYNOS_SVC_OFFSET], 0, 3)

\* C11: when the service register reports a group g >= 1 that selects a
\* bank of the table, and a pin of it that has no virtual line, the primary
\* GPIO handler dispatches nothing and returns IRQ_NONE.
C11_UnmappedPinNotMine ==
    (/\ last.op = "gpio_irq"
     /\ SvcGroup >= 1
     /\ (SvcGroup - 1) \in BankIds
     /\ IsEint(SvcGroup - 1)
     /\ <<SvcGroup - 1, SvcPin>> \notin mapped)
    => /\ last.ret = IRQ_NONE
       /\ Events(trace, "generic_handle_irq") = {}
       /\ Events(trace, "writel") = {}

C11_Witness ==
    /\ last.op = "gpio_irq" /\ last.ret = IRQ_NONE
    /\ SvcGroup = 2 /\ SvcPin = 3
    /\ pin_banks[1].nr_pins = 8
    /\ <<1, 3>> \notin mapped
    /\ \E i \in Events(trace, "irq_linear_revmap") :
          trace[i].a = 1 /\ trace[i].v = {3}

\* C12: when the service register reports group 0, the primary GPIO handler
\* dispatches nothing, looks at no bank, and reports the interrupt as not
\* handled, as it does for a pin without a virtual line.
C12_GroupZeroNotMine ==
    (last.op = "gpio_irq" /\ SvcGroup = 0)
    => /\ Events(trace, "generic_handle_irq") = {}
       /\ Events(trace, "irq_linear_revmap") = {}
       /\ last.ret = IRQ_NONE

WkupBanks == {b \in BankIds : pin_banks[b].eint_type \in {"WKUP", "WKUP_MUX"}}

\* the fields of a filter register that exynos_eint_flt_config programs
FltFields(b) == 0..((pin_banks[b].nr_pins \div 2) - 1)

\* every programmed field of both filter registers of bank b holds word w
FltProgrammed(m, b, w) ==
    \A i \in FltFields(b) :
        /\ Field(m[FltReg(b)], i * EXYNOS_EINT_FLTCON_LEN, EXYNOS_EINT_FLTCON_LEN) = w
        /\ Field(m[FltReg(b) + 4], i * EXYNOS_EINT_FLTCON_LEN, EXYNOS_EINT_FLTCON_LEN) = w

\* C13: the initialisation leaves the programmed filter fields of every
\* wakeup bank at enable + select, width 0; suspend sets these fields of
\* every wakeup bank, direct or muxed, to enable with select clear; resume
\* sets them back to enable + select, width 0. For a GPIO bank suspend writes
\* no filter register and resume writes only the saved values.
C13_WakeupFilterMode ==
    /\ [](nops = 0 => \A b \in WkupBanks :
                         FltProgrammed(mmio, b, EXYNOS_EINT_FLTCON_EN
                                                    + EXYNOS_EINT_FLTCON_SEL))
    /\ [][/\ last'.op = "suspend" =>
                /\ \A b \in WkupBanks : FltProgrammed(mmio', b, EXYNOS_EINT_FLTCON_EN)
                /\ \A b \in GpioBanks :
                      /\ WritesTo(trace', FltReg(b)) = {}
                      /\ WritesTo(trace', FltReg(b) + 4) = {}
          /\ last'.op = "resume" =>
                /\ \A b \in WkupBanks :
                      FltProgrammed(mmio', b, EXYNOS_EINT_FLTCON_EN
                                                  + EXYNOS_EINT_FLTCON_SEL)
                /\ \A b \in GpioBanks :
                      /\ \A i \in WritesTo(trace', FltReg(b)) :
                            trace'[i].v = save[b].eint_fltcon0
                      /\ \A i \in WritesTo(trace', FltReg(b) + 4) :
                            trace'[i].v = save[b].eint_fltcon1]_vars

C13_Witness ==
    /\ last.op = "resume"
    /\ \E b \in WkupBanks :
          /\ pin_banks[b].eint_type = "WKUP_MUX"
          /\ pin_banks[b].nr_pins = 5
          /\ Field(mmio[FltReg(b)], 0, 8) = 192
          /\ Field(mmio[FltReg(b) + 4], 8, 8) = 192
          /\ Field(mmio[FltReg(b)], 16, 8) = 255

\* the filter field of pin p of bank b: four 8-bit fields per register, the
\* pins 0..3 in the primary and 4..7 in the paired register
PinFltField(m, b, p) ==
    Field(m[FltReg(b) + 4 * (p \div 4)], (p % 4) * EXYNOS_EINT_FLTCON_LEN,
          EXYNOS_EINT_FLTCON_LEN)

\* C14: after the filter configurator has run on a bank with n pins, the
\* filter field of every one of the n pins equals the control word built
\* from the arguments (suspend: enable; resume: enable + select).
C14_FilterEveryPin ==
    /\ last.op = "suspend" =>
          \A b \in WkupBanks : \A p \in Pins(b) :
              PinFltField(mmio, b, p) = EXYNOS_EINT_FLTCON_EN
    /\ last.op = "resume" =>
          \A b \in WkupBanks : \A p \in Pins(b) :
              PinFltField(mmio, b, p) = EXYNOS_EINT_FLTCON_EN + EXYNOS_EINT_FLTCON_SEL

\* the banks whose domains a run created, and removed, in the order of the
\* calls
IsDomainAdd(e) == e.ev = "irq_domain_add_linear"
IsDomainRemove(e) == e.ev = "irq_domain_remove"
BanksOf(evs) == [i \in DOMAIN evs |-> evs[i].a]
Range(f) == {f[i] : i \in DOMAIN f}

\* what the unwinding of a failed exynos_eint_gpio_init has to remove: the
\* failing bank's own domain if it was created, then the domains of the
\* earlier GPIO banks, the latest first
ExpectedRemoval(fail) ==
    (IF fail.kind = "alloc" THEN <<fail.bank>> ELSE <<>>)
        \o Descending({b \in BankIds : pin_banks[b].eint_type = "GPIO" /\ b < fail.bank})

\* C17: when the creation of the domain or the allocation of the save slot of
\* a GPIO bank fails in exynos_eint_gpio_init, the domains the run created
\* (the failing bank's own one included when only the allocation failed) are
\* removed exactly once each, the earlier banks in reverse order, no domain of
\* a bank that is not a GPIO bank is touched, and the error is returned
C17_GpioInitUnwinds ==
    [][(/\ last'.op = "gpio_init"
        /\ of_node.irq
        /\ last'.arg.kind \in {"domain", "alloc"})
       => LET added == BanksOf(SelectSeq(trace', IsDomainAdd))
              removed == BanksOf(SelectSeq(trace', IsDomainRemove))
          IN  /\ last'.ret = (IF last'.arg.kind = "domain" THEN -ENXIO ELSE -ENOMEM)
              /\ removed = ExpectedRemoval(last'.arg)
              /\ Range(removed) = Range(added)
              /\ Cardinality(Range(removed)) = Len(removed)
              /\ \A b \in Range(removed) : pin_banks[b].eint_type = "GPIO"
              /\ irq_domain' = irq_domain
              /\ \A i \in DOMAIN trace' :
                     IsDomainRemove(trace'[i]) =>
                         \A j \in DOMAIN trace' :
                             (IsDomainAdd(trace'[j]) \/ trace'[j].ev = "dev_err")
                                 => j < i]_vars

\* the save slot of the sixth bank of the exynos3250 table cannot be
\* allocated: its own domain and those of the two earlier GPIO banks go, the
\* three banks without interrupts in front are passed over
C17_Witness ==
    /\ last.op = "gpio_init"
    /\ last.arg = Failure("alloc", 5)
    /\ last.ret = -ENOMEM
    /\ pin_banks[0].eint_type = "NONE"
    /\ BanksOf(SelectSeq(trace, IsDomainRemove)) = <<5, 4, 3>>
    /\ irq_domain = {}

\* C18: without a child node that is a wakeup controller,
\* exynos_eint_wkup_init returns -ENODEV and has changed nothing: no filter
\* register written, no domain created, no bank reclassified, no handler bound
C18_NoWakeupNode ==
    [][(last'.op = "wkup_init" /\ ~of_node.wkup_np)
       => /\ last'.ret = -ENODEV
          /\ mmio' = mmio
          /\ irq_domain' = irq_domain
          /\ pin_banks' = pin_banks
          /\ handlers' = handlers
          /\ muxed_data' = muxed_data
          /\ muxed_nr_banks' = muxed_nr_banks
          /\ trace' = <<>>]_vars

\* the second exynos3250 controller without a wakeup node, after a GPIO
\* initialisation that went through: its wakeup banks are left as they were
C18_Witness ==
    /\ last.op = "wkup_init"
    /\ ~of_node.wkup_np
    /\ last.ret = -ENODEV
    /\ BanksOfType("WKUP") = {12, 13, 14, 15}
    /\ irq_domain = BanksOfType("GPIO")
    /\ handlers = {GpioBinding}

\* C19: a physical line that is not there only costs the lines that depend
\* on it. Without the controller's interrupt exynos_eint_gpio_init gives up
\* having changed nothing. In a wakeup initialisation in which no allocation
\* fails, whether or not the GPIO part went through, a pin of a direct bank
\* gets its handler exactly if its line resolves, whatever happens to other
\* pins; every wakeup bank gets its filter and its domain; a missing line of
\* the muxed banks leaves only the muxed handler unbound; the result is 0.
C19_MissingLineSkipsOnlyThatLine ==
    /\ [][(last'.op = "gpio_init" /\ ~of_node.irq)
          => /\ last'.ret = -EINVAL
             /\ mmio' = mmio /\ irq_domain' = irq_domain /\ handlers' = handlers
             /\ Events(trace', "writel") = {}]_vars
    /\ [][(last'.op = "wkup_init" /\ of_node.wkup_np /\ last'.arg = NoFailure)
          => /\ last'.ret = 0
             /\ \A b \in BanksOfType("WKUP") :
                  /\ b \in irq_domain'
                  /\ FltProgrammed(mmio', b, EXYNOS_EINT_FLTCON_EN
                                                 + EXYNOS_EINT_FLTCON_SEL)
                  /\ pin_banks'[b].eint_type =
                         (IF b \in of_node.interrupts THEN "WKUP" ELSE "WKUP_MUX")
                  /\ b \in of_node.interrupts =>
                         \A idx \in Pins(b) :
                             DirectBinding(b, idx) \in handlers'
                                 <=> <<b, idx>> \notin of_node.unresolved
             /\ MuxedBinding \in handlers'
                    <=> (of_node.muxed_irq
                            /\ BanksOfType("WKUP") \ of_node.interrupts # {})]_vars

\* on the ALIVE controller pin 1 of gpa1 and the line of the muxed banks do
\* not resolve and the controller has no interrupt of its own: the other
\* seven pins of gpa1 and all of gpa0 are bound, gpa2 and gpa3 have their
\* domains
C19_Witness ==
    /\ last.op = "wkup_init" /\ last.ret = 0 /\ last.arg = NoFailure
    /\ pin_banks[3].name = "gpa1"
    /\ ~of_node.irq /\ ~of_node.muxed_irq
    /\ of_node.interrupts = {2, 3}
    /\ of_node.unresolved = {<<3, 1>>}
    /\ handlers = {DirectBinding(b, idx) : b \in {2, 3}, idx \in 0..7}
                      \ {DirectBinding(3, 1)}
    /\ irq_domain = {2, 3, 4, 5}

\* C16: when the creation of the domain of a wakeup bank fails in
\* exynos_eint_wkup_init, the function returns -ENXIO and the domains it
\* created for the earlier wakeup banks have been removed
C16_WkupInitUnwinds ==
    [][(/\ last'.op = "wkup_init"
        /\ of_node.wkup_np
        /\ last'.arg.kind = "domain")
       => /\ last'.ret = -ENXIO
          /\ irq_domain' = irq_domain
          /\ Range(BanksOf(SelectSeq(trace', IsDomainRemove)))
                 = Range(BanksOf(SelectSeq(trace', IsDomainAdd)))]_vars

RECURSIVE Ascending(_)
Ascending(bits) ==
    IF bits = {} THEN <<>>
    ELSE LET m == CHOOSE x \in bits : \A y \in bits : x <= y
         IN  <<m>> \o Ascending(bits \ {m})

\* the wakeup banks of the table without a per-pin list of physical lines
ListlessBanks == BanksOfType("WKUP") \ of_node.interrupts

\* the banks with such a list are direct after the initialisation, and each
\* of their pins whose line resolves is bound to the direct handler with a
\* binding naming the bank and the pin
DirectBanksBound(banks, hs) ==
    \A b \in BanksOfType("WKUP") \cap of_node.interrupts :
        /\ banks[b].eint_type = "WKUP"
        /\ \A idx \in Pins(b) :
               <<b, idx>> \notin of_node.unresolved =>
                   \E h \in hs : /\ h.handler = "exynos_irq_eint0_15"
                                 /\ h.irq = <<b, idx>>
                                 /\ h.bank = b /\ h.pin = idx

\* the group of the muxed handler holds the banks without a list, each once,
\* in table order, and counts them
MuxedGroupBuilt(banks, group, count) ==
    /\ group = Ascending(ListlessBanks)
    /\ count = Cardinality(ListlessBanks)
    /\ \A b \in ListlessBanks : banks[b].eint_type = "WKUP_MUX"

\* C15 as stated: after every wakeup initialisation that returned 0 the
\* group of the muxed handler holds exactly the wakeup banks without a
\* per-pin list, in table order, with their count, and the other wakeup
\* banks are direct with their resolvable pins bound
C15_MuxedGroupAfterInit ==
    [][(last'.op = "wkup_init" /\ of_node.wkup_np /\ last'.ret = 0)
       => /\ MuxedGroupBuilt(pin_banks', muxed_data', muxed_nr_banks')
          /\ DirectBanksBound(pin_banks', handlers')]_vars

\* C15 amended: the same, for the group, after a wakeup initialisation that
\* returned 0 and in which the physical line shared by the muxed banks
\* resolved or no bank is muxed; the direct banks are bound after every
\* wakeup initialisation that returned 0
C15_MuxedGroupAfterInitWithLine ==
    [][(last'.op = "wkup_init" /\ of_node.wkup_np /\ last'.ret = 0)
       => /\ (of_node.muxed_irq \/ ListlessBanks = {})
                 => MuxedGroupBuilt(pin_banks', muxed_data', muxed_nr_banks')
          /\ DirectBanksBound(pin_banks', handlers')]_vars

\* on the second exynos3250 controller gpx1 and gpx3 list their lines and
\* gpx0 and gpx2 do not: the group is gpx0, gpx2
C15_Witness ==
    /\ last.op = "wkup_init" /\ last.ret = 0
    /\ of_node.wkup_np /\ of_node.muxed_irq
    /\ of_node.interrupts = {13, 15}
    /\ muxed_data = <<12, 14>>
    /\ muxed_nr_banks = 2
    /\ pin_banks[13].eint_type = "WKUP"
    /\ DirectBinding(13, 7) \in handlers
    /\ MuxedBinding \in handlers

\* the lines of the wakeup banks and the position of a line's bit in
\* exynos_eint_wake_mask
WkupLines == {l \in Lines : l[1] \in WkupBanks}
WakePos(l) == 2 * pin_banks[l[1]].eint_offset + l[2]

\* C20: in the bank table of a controller two different wakeup lines never
\* have the same bit of the wake mask and every bit position is below 32, so
\* that enabling wake on a line and then disabling wake on another line
\* leaves the bit of the first line cleared
C20_WakeBitPerLine ==
    /\ [](\A l \in WkupLines :
              /\ WakePos(l) < 32
              /\ \A k \in WkupLines : k # l => WakePos(k) # WakePos(l))
    /\ [][(/\ last.op = "set_wake" /\ last.arg = 1
           /\ last'.op = "set_wake" /\ last'.arg = 0
           /\ <<last'.bank, last'.pin>> # <<last.bank, last.pin>>)
          => WakePos(<<last.bank, last.pin>>) \notin wake_mask']_vars

\* C26 as stated: a successful exynos_irq_set_type installs the edge flow
\* handler only for both edges and the level flow handler for rising,
\* falling, high and low
C26_EdgeHandlerForBothOnly ==
    [][(last'.op = "set_type" /\ last'.ret = 0)
       => irq_handler'[<<last'.bank, last'.pin>>]
              = (IF last'.arg = IRQ_TYPE_EDGE_BOTH THEN "edge" ELSE "level")]_vars

\* C26 amended: a successful exynos_irq_set_type installs the edge flow
\* handler when the kind is an edge kind (rising, falling or both edges) and
\* the level flow handler when it is a level kind (high or low)
C26_EdgeHandlerForEdges ==
    [][(last'.op = "set_type" /\ last'.ret = 0)
       => irq_handler'[<<last'.bank, last'.pin>>]
              = (IF last'.arg \in {IRQ_TYPE_EDGE_RISING, IRQ_TYPE_EDGE_FALLING,
                                   IRQ_TYPE_EDGE_BOTH}
                 THEN "edge" ELSE "level")]_vars

\* a line set to the rising edge has the edge flow handler
C26_Witness ==
    /\ last.op = "set_type" /\ last.ret = 0
    /\ last.arg = IRQ_TYPE_EDGE_RISING
    /\ irq_handler[<<last.bank, last.pin>>] = "edge"
    /\ Field(mmio[ConReg(last.bank)], EXYNOS_EINT_CON_LEN * last.pin,
             EXYNOS_EINT_CON_LEN) = EXYNOS_EINT_EDGE_RISING

\* the function-select field of a line
FuncField(m, l) == Field(m[FuncReg(l[1])], l[2] * FuncWidth(l[1]), FuncWidth(l[1]))

\* C27: exynos_irq_request_resources locks the pin as interrupt before it
\* writes the EINT function code, and exynos_irq_release_resources writes the
\* input code before it unlocks the pin; so whenever a step sets the field of
\* a line to the EINT code the line is locked as interrupt after it, and
\* whenever a step unlocks a line its field no longer holds the EINT code
C27_ClaimBracketsFunction ==
    /\ [][(last'.op = "request" /\ last'.ret = 0)
          => \A i \in Events(trace', "gpio_lock"), j \in Events(trace', "writel") :
                 i < j]_vars
    /\ [][last'.op = "release"
          => /\ Events(trace', "writel") # {}
             /\ \A i \in Events(trace', "writel"), j \in Events(trace', "gpio_unlock") :
                    i < j]_vars
    /\ [][\A l \in Lines :
            /\ (FuncField(mmio', l) = EXYNOS_EINT_FUNC
                    /\ FuncField(mmio, l) # EXYNOS_EINT_FUNC)
                   => (last'.op = "request" /\ l \in gpio_irq')
            /\ (l \in gpio_irq /\ l \notin gpio_irq')
                   => (last'.op = "release" /\ FuncField(mmio', l) = FUNC_INPUT)]_vars

\* a claimed pin has been released: reprogrammed as input, then unlocked
C27_Witness ==
    /\ last.op = "release"
    /\ <<last.bank, last.pin>> \notin gpio_irq
    /\ FuncField(mmio, <<last.bank, last.pin>>) = FUNC_INPUT
    /\ Len(trace) = 5
    /\ trace[3].ev = "writel" /\ trace[5].ev = "gpio_unlock"

\* the banks with external interrupts
EintBanks == {b \in BankIds : IsEint(b)}

\* C28: exynos_pinctrl_suspend and exynos_pinctrl_resume write no pending
\* and no mask register of any bank: the pending and mask bits of every line
\* are after the operation what they were before it
C28_PmKeepsPendingAndMask ==
    [][last'.op \in {"suspend", "resume"}
       => \A b \in EintBanks :
              /\ mmio'[PendReg(b)] = mmio[PendReg(b)]
              /\ mmio'[MaskReg(b)] = mmio[MaskReg(b)]
              /\ WritesTo(trace', PendReg(b)) = {}
              /\ WritesTo(trace', MaskReg(b)) = {}]_vars

\* a resume that restored the registers of a GPIO bank with events pending
\* in it and a line unmasked
C28_Witness ==
    /\ last.op = "resume"
    /\ \E b \in GpioBanks :
          /\ WritesTo(trace, ConReg(b)) # {}
          /\ mmio[PendReg(b)] # {}
          /\ mmio[MaskReg(b)] # Bits32

\* whether the core has recorded a level trigger for a line
IsLevel(l) == BitAnd(U32(irq_type[l]), U32(IRQ_TYPE_LEVEL_MASK)) # {}

\* C29: exynos_irq_mask sets exactly the bit of the line in the mask register
\* of its bank and exynos_irq_unmask clears exactly that bit; the mask bits of
\* the other lines of the bank, its control, pending and function-select
\* registers (but for the acknowledge unmask makes for a level line) and all
\* registers of the other banks are unchanged
C29_MaskTouchesOneBit ==
    [][last'.op \in {"mask", "unmask"}
       => LET b == last'.bank
              p == last'.pin
          IN  /\ mmio'[MaskReg(b)] = (IF last'.op = "mask"
                                      THEN mmio[MaskReg(b)] \cup {p}
                                      ELSE mmio[MaskReg(b)] \ {p})
              /\ mmio'[ConReg(b)] = mmio[ConReg(b)]
              /\ mmio'[FuncReg(b)] = mmio[FuncReg(b)]
              /\ mmio'[PendReg(b)] = (IF last'.op = "unmask" /\ IsLevel(<<b, p>>)
                                      THEN mmio[PendReg(b)] \ {p}
                                      ELSE mmio[PendReg(b)])
              /\ \A c \in EintBanks \ {b} :
                     /\ mmio'[MaskReg(c)] = mmio[MaskReg(c)]
                     /\ mmio'[PendReg(c)] = mmio[PendReg(c)]
                     /\ mmio'[ConReg(c)] = mmio[ConReg(c)]
                     /\ mmio'[FuncReg(c)] = mmio[FuncReg(c)]]_vars

\* every iteration of the loop of exynos_irq_demux_eint started on v takes
\* out the bit it dispatches and nothing else
RECURSIVE ClearsOnePerStep(_)
ClearsOnePerStep(v) ==
    \/ v = {}
    \/ LET irq == fls(v) - 1
       IN  /\ irq \in v
           /\ v \cap NotBit(irq) = v \ {irq}
           /\ ClearsOnePerStep(v \ {irq})

\* the bits the muxed handler looks up in bank b, in the order of the lookups
LookedUp(tr, b) ==
    LET IsLookupOf(e) == e.ev = "irq_find_mapping" /\ e.a = b
        evs == SelectSeq(tr, IsLookupOf)
    IN  [k \in DOMAIN evs |-> CHOOSE q \in evs[k].v : TRUE]

\* C30: the loop of exynos_irq_demux_eint ends for every value of
\* pending & ~mask, bit 31 included: each iteration clears the bit it
\* dispatched and no other and sets none, the loop runs once per set bit,
\* and exynos_irq_demux_eint16_31 gets to chained_irq_exit
C30_DemuxLoopTerminates ==
    [][last'.op = "demux"
       => /\ \A i \in 1..muxed_nr_banks :
                 LET b == muxed_data[i]
                     v == mmio[PendReg(b)] \ mmio[MaskReg(b)]
                 IN  /\ ClearsOnePerStep(v)
                     /\ Len(LookedUp(trace', b)) = Cardinality(v)
                     /\ Range(LookedUp(trace', b)) = v
          /\ trace'[Len(trace')].ev = "chained_irq_exit"]_vars

\* bit 31 pending and unmasked in a muxed bank: looked up first, then the
\* lower bits
C30_Witness ==
    /\ last.op = "demux"
    /\ trace[Len(trace)].ev = "chained_irq_exit"
    /\ \E i \in 1..muxed_nr_banks :
          /\ LookedUp(trace, muxed_data[i]) = <<31, 4, 0>>
          /\ mmio[PendReg(muxed_data[i])] = {0, 4, 31}

\* the calls exynos_irq_eint0_15 makes itself, in order: the events of the
\* run without the register accesses and calls of the dispatched flow handler
IsHandlerCall(e) ==
    e.ev \in {"chained_irq_enter", "chip_irq_mask", "chip_irq_ack",
              "generic_handle_irq", "chip_irq_unmask", "chained_irq_exit"}
CallsOf(tr) == LET evs == SelectSeq(tr, IsHandlerCall)
               IN  [k \in DOMAIN evs |-> evs[k].ev]

\* C25 as stated: every run of exynos_irq_eint0_15 makes, in this order,
\* chained-enter, mask, acknowledge, one dispatch of the virtual line of the
\* pin bound to the physical line, unmask, chained-exit
C25_DirectHandlerAlwaysAcks ==
    [][last'.op = "eint0_15"
       => /\ CallsOf(trace') = <<"chained_irq_enter", "chip_irq_mask", "chip_irq_ack",
                                 "generic_handle_irq", "chip_irq_unmask",
                                 "chained_irq_exit">>
          /\ \A i \in Events(trace', "generic_handle_irq") :
                 trace'[i].a = irq_linear_revmap(last'.bank, last'.pin)]_vars

\* C25 amended: the same, with the acknowledge made exactly when the chip of
\* the physical line has an acknowledge operation; the physical line is
\* masked before the dispatch and unmasked only after it
C25_DirectHandlerOrder ==
    [][last'.op = "eint0_15"
       => /\ CallsOf(trace') =
                 <<"chained_irq_enter", "chip_irq_mask">>
                     \o (IF last'.arg = 1 THEN <<"chip_irq_ack">> ELSE <<>>)
                     \o <<"generic_handle_irq", "chip_irq_unmask", "chained_irq_exit">>
          /\ \A i \in Events(trace', "generic_handle_irq") :
                 /\ trace'[i].a = irq_linear_revmap(last'.bank, last'.pin)
                 /\ \A j \in Events(trace', "chip_irq_unmask") : i < j
                 /\ \E j \in Events(trace', "chip_irq_mask") : j < i
          /\ trace'[1].ev = "chained_irq_enter"
          /\ trace'[Len(trace')].ev = "chained_irq_exit"]_vars

\* the line of the last pin of gpa1, claimed by a consumer, fires on a parent
\* chip without acknowledge: the consumer's action runs between the mask and
\* the unmask of the physical line
C25_Witness ==
    /\ last.op = "eint0_15" /\ last.arg = 0
    /\ <<last.bank, last.pin>> \in mapped
    /\ \E i \in Events(trace, "chip_irq_mask"), j \in Events(trace, "action"),
          k \in Events(trace, "chip_irq_unmask") :
              /\ i < j /\ j < k
              /\ trace[j].a = Virq(last.bank, last.pin)
    /\ Events(trace, "chip_irq_ack") = {}

\* the bits of the register an operation works on that belong to its line,
\* and the value the operation gives them
LineLow(op, b, p) ==
    CASE op \in {"mask", "unmask"} -> p
      [] op \in {"request", "release"} -> p * FuncWidth(b)
      [] op = "set_type" -> EXYNOS_EINT_CON_LEN * p
      [] op = "set_wake" -> WakePos(<<b, p>>)
LineWidth(op, b) ==
    CASE op \in {"request", "release"} -> FuncWidth(b)
      [] op = "set_type" -> EXYNOS_EINT_CON_LEN
      [] OTHER -> 1
LineBits(op, b, p) == LineLow(op, b, p)..(LineLow(op, b, p) + LineWidth(op, b) - 1)
LineValue(op, b, arg) ==
    CASE op = "mask" -> 1
      [] op = "unmask" -> 0
      [] op = "request" -> EXYNOS_EINT_FUNC % (2^FuncWidth(b))
      [] op = "release" -> FUNC_INPUT
      [] op = "set_type" -> HwCode(arg)
      [] op = "set_wake" -> IF arg = 0 THEN 1 ELSE 0

\* processor c makes the write of its operation in this step
Writes(c) == cpus[c].pc = "write" /\ cpus'[c].pc = "return"

\* the write of processor c gives the bits of its line their value and leaves
\* every other bit of the register as it is at that moment
WriteKeepsOthers(c) ==
    LET me == cpus[c]
        old == IF me.op = "set_wake" THEN wake_mask ELSE mmio[RmwReg(me.op, me.bank)]
        new == IF me.op = "set_wake" THEN wake_mask' ELSE mmio'[RmwReg(me.op, me.bank)]
    IN  /\ Field(new, LineLow(me.op, me.bank, me.pin), LineWidth(me.op, me.bank))
               = LineValue(me.op, me.bank, me.arg)
        /\ new \ LineBits(me.op, me.bank, me.pin) = old \ LineBits(me.op, me.bank, me.pin)

\* once processor c has written, the bits of its line hold what it wrote
\* until it returns
WrittenStays(c) ==
    LET me == cpus[c]
    IN  me.pc = "return" =>
            Field(RmwGet(Machine, me.op, me.bank),
                  LineLow(me.op, me.bank, me.pin), LineWidth(me.op, me.bank))
                = LineValue(me.op, me.bank, me.arg)

\* C21: mask, unmask, request_resources and release_resources read, modify
\* and write their register holding the lock of the bank: only one processor
\* is between the read and the unlock for a bank, and the write of an
\* operation changes the bits of its own line only, so that no update of
\* another line made meanwhile is lost
C21_LockedUpdatesNotLost ==
    /\ [](\A c \in CPUs :
            /\ (TakesLock(cpus[c].op) /\ cpus[c].pc \in {"read", "write", "return"})
                   => slock[cpus[c].bank] = c
            /\ TakesLock(cpus[c].op) => WrittenStays(c))
    /\ [][\A c \in CPUs :
            (Writes(c) /\ TakesLock(cpus[c].op)) => WriteKeepsOthers(c)]_vars

\* one processor has masked the last pin of gpa0 and not yet dropped the
\* lock while the other, unmasking pin 0, waits for it
C21_Witness ==
    /\ cpus[1].op = "mask" /\ cpus[1].pc = "return"
    /\ cpus[0].op = "unmask" /\ cpus[0].pc = "lock"
    /\ cpus[0].bank = cpus[1].bank
    /\ slock[cpus[1].bank] = 1
    /\ 0 \in mmio[MaskReg(2)] /\ 7 \in mmio[MaskReg(2)]

\* C22: exynos_irq_set_type reads, modifies and writes the control register
\* of the bank under the lock of the bank, so that of two calls for different
\* lines of a bank running at the same time each leaves its code in the
\* field of its line
C22_SetTypeSerialized ==
    /\ [](\A c \in CPUs :
            cpus[c].op = "set_type" =>
                /\ cpus[c].pc \in {"read", "write", "return"}
                       => slock[cpus[c].bank] = c
                /\ WrittenStays(c))
    /\ [][\A c \in CPUs :
            (Writes(c) /\ cpus[c].op = "set_type") => WriteKeepsOthers(c)]_vars

\* C23: exynos_wkup_irq_set_wake updates exynos_eint_wake_mask by a load and a
\* store with no lock held: two calls can be between their load and their
\* store at the same time, and the store puts back the value loaded, with
\* the bit of the line changed, whatever has been stored since
C23_SetWakeUnlocked ==
    /\ [](\A c \in CPUs : cpus[c].op = "set_wake" => \A b \in BankIds : slock[b] # c)
    /\ [][\A c \in CPUs :
            (Writes(c) /\ cpus[c].op = "set_wake")
                => wake_mask' = (IF cpus[c].arg = 0
                                 THEN cpus[c].tmp \cup {WakePos(<<cpus[c].bank, cpus[c].pin>>)}
                                 ELSE cpus[c].tmp \ {WakePos(<<cpus[c].bank, cpus[c].pin>>)})]_vars

\* wake was enabled for pin 0 of gpa0 by a call that has returned, and for
\* pin 7 by a call that has made its store: bit 7 is clear and bit 0, which
\* the first call cleared, is set again
C23_Witness ==
    /\ nops = 2
    /\ last = [op |-> "set_wake", bank |-> 2, pin |-> 0, arg |-> 1, ret |-> 0]
    /\ cpus[0] = Idle
    /\ cpus[1].op = "set_wake" /\ cpus[1].pc = "return"
    /\ cpus[1].arg = 1 /\ cpus[1].pin = 7
    /\ 7 \notin wake_mask
    /\ 0 \in wake_mask

\* the muxed wakeup group as exynos_eint_wkup_init leaves it when it returns
GroupConstructed ==
    /\ cpus[0].op # "wkup_init"
    /\ muxed_data # <<>>
    /\ Range(muxed_data) = BanksOfType("WKUP_MUX")
    /\ muxed_nr_banks = Cardinality(BanksOfType("WKUP_MUX"))

\* C24: once the muxed handler is bound to the shared line, every invocation
\* of it finds the muxed wakeup group fully constructed (handler data set,
\* every bank entry and the bank count filled in), and the group is not
\* modified while the handler is bound
C24_MuxedHandlerSeesCompleteGroup ==
    [][/\ (last'.op = "demux" /\ nops' = nops + 1) => GroupConstructed
       /\ (MuxedBinding \in handlers) =>
              muxed_data' = muxed_data /\ muxed_nr_banks' = muxed_nr_banks]_vars

\* the edge triggers of a line
EdgeKinds == {IRQ_TYPE_EDGE_RISING, IRQ_TYPE_EDGE_FALLING, IRQ_TYPE_EDGE_BOTH}

\* C31: exynos_irq_unmask of a line whose recorded trigger is rising,
\* falling or both edges writes nothing to the pending register, so the
\* pending register of the bank, a latched event of the line included, is
\* as it was before the unmask
C31_EdgeUnmaskKeepsPending ==
    [][(last'.op = "unmask" /\ irq_type[<<last'.bank, last'.pin>>] \in EdgeKinds)
       => /\ WritesTo(trace', PendReg(last'.bank)) = {}
          /\ mmio'[PendReg(last'.bank)] = mmio[PendReg(last'.bank)]]_vars

C31_Witness ==
    /\ last.op = "unmask"
    /\ irq_type[<<last.bank, last.pin>>] = IRQ_TYPE_EDGE_FALLING
    /\ last.pin \in mmio[PendReg(last.bank)]
    /\ last.pin \notin mmio[MaskReg(last.bank)]
    /\ WritesTo(trace, MaskReg(last.bank)) # {}

\* C32: whatever group the service register reports, the bank the primary
\* GPIO handler looks at (group - 1) is a bank of the controller's table, of
\* type GPIO, whose domain has been created, and the handler does not fault
C32_GpioIrqBankInTable ==
    (last.op = "gpio_irq" /\ SvcGroup # 0)
    => /\ (SvcGroup - 1) \in BankIds
       /\ pin_banks[SvcGroup - 1].eint_type = "GPIO"
       /\ (SvcGroup - 1) \in irq_domain
       /\ Events(trace, "oops") = {}

\* C33: the direct and the muxed wakeup handler call generic_handle_irq
\* only with the virtual line of a mapped pin, never with line number 0,
\* which the reverse map returns for a pin without a mapping
C33_WakeupDispatchOnlyMapped ==
    last.op \in {"eint0_15", "demux"}
    => \A i \in Events(trace, "generic_handle_irq") : trace[i].a # 0

\* the bits of a filter register of bank b outside the fields that
\* exynos_eint_flt_config programs
FltOutside(b) == Bits32 \ (0..(EXYNOS_EINT_FLTCON_LEN * (pin_banks[b].nr_pins \div 2) - 1))

\* C34: exynos_eint_flt_config leaves the bits of the primary and of the
\* paired filter register of the bank outside the programmed fields as they
\* were; the paired register keeps its own contents there
C34_FltConfigKeepsOtherBits ==
    [][last'.op = "flt_config"
       => LET b == last'.bank
          IN  /\ mmio'[FltReg(b)] \cap FltOutside(b) = mmio[FltReg(b)] \cap FltOutside(b)
              /\ mmio'[FltReg(b) + 4] \cap FltOutside(b)
                     = mmio[FltReg(b) + 4] \cap FltOutside(b)]_vars

\* the banks whose lock processor c holds
Held(c) == {b \in BankIds : slock[b] = c}

\* C35: a processor holds the lock of a bank only between the
\* spin_lock_irqsave and the spin_unlock_irqrestore of a mask, unmask, claim
\* or release on that bank, so never when the operation has returned and
\* never together with another lock or while it waits for one; unmask
\* writes the pending register before it asks for the lock; and an
\* operation that waits for the lock of a bank gets it
C35_BankLockReleased ==
    /\ [](\A c \in CPUs :
            /\ Cardinality(Held(c)) <= 1
            /\ Held(c) # {} => /\ TakesLock(cpus[c].op)
                               /\ cpus[c].pc \in {"read", "write", "return"}
                               /\ Held(c) = {cpus[c].bank})
    /\ [][\A b \in EintBanks :
            mmio'[PendReg(b)] # mmio[PendReg(b)]
            => \E c \in CPUs : /\ cpus[c].pc = "idle" /\ Held(c) = {}
                               /\ cpus'[c].op = "unmask" /\ cpus'[c].pc = "lock"
                               /\ cpus'[c].bank = b]_vars
    /\ \A c \in CPUs : (cpus[c].pc = "lock") ~> (cpus[c].pc = "idle")

\* an unmask waits for the lock of the bank while the other processor,
\* inside a claim, holds it; the waiting processor holds no lock
C35_Witness ==
    /\ cpus[0].op = "unmask" /\ cpus[0].pc = "lock"
    /\ Held(0) = {}
    /\ cpus[1].op = "request" /\ cpus[1].pc = "write"
    /\ Held(1) = {cpus[0].bank}

\* the banks a wakeup initialisation stored into the muxed group and the
\* number of banks it allocated the group for
StoredBanks(tr) == Cardinality(Events(tr, "muxed_bank"))
GroupBuilt(tr) == Events(tr, "muxed_nr_banks") # {}

\* C36: a wakeup initialisation that builds the muxed group stores no more
\* banks than the count it allocated the group for, and the bank count of
\* the group is the number of banks stored, also when the bank table was
\* reclassified by an earlier run
C36_MuxedGroupWithinCapacity ==
    (last.op = "wkup_init" /\ GroupBuilt(trace))
    => /\ \A i \in Events(trace, "muxed_nr_banks") : StoredBanks(trace) <= trace[i].a
       /\ muxed_nr_banks = StoredBanks(trace)
       /\ Events(trace, "oops") = {}

\* processor c is inside the stack-printing section: one of its calls has
\* the lock and has not finished __dump_stack
Printing(c) == \E k \in 1..Depth(c) : dump_cpu[c].calls[k].pc = "print"

\* C37: at most one processor is inside the stack-printing section,
\* dump_lock then holds its id, and a processor enters the section only by
\* winning the compare-and-swap on a dump_lock that reads -1
C37_DumpStackSerialized ==
    /\ [](\A c, d \in CPUs : (Printing(c) /\ Printing(d)) => c = d)
    /\ [](\A c \in CPUs : Printing(c) => dump_lock = c)
    /\ [][\A c \in CPUs :
            (~Printing(c) /\ Printing(c)')
            => (At(c, "cmpxchg") /\ dump_lock = -1 /\ dump_lock' = c)]_vars

\* processor 0 prints while processor 1, which lost the compare-and-swap,
\* spins with its interrupts restored
C37_Witness ==
    /\ Printing(0) /\ dump_lock = 0
    /\ At(1, "spin") /\ dump_cpu[1].irqs

\* the calls of processor c that hold or share the lock
Owning(c) == {k \in 1..Depth(c) : dump_cpu[c].calls[k].pc \in {"print", "unlock"}}

\* C38: a _dump_stack call made on the processor that owns dump_lock goes
\* on to print at once, with was_locked set, and leaves dump_lock alone when
\* it returns; dump_lock stays with the processor while a call of it that
\* took the lock has not released it, and only that call, with no owning
\* call around it, sets dump_lock to -1
C38_NestedDumpKeepsLock ==
    /\ [](\A c \in CPUs :
            (\E k \in Owning(c) : dump_cpu[c].calls[k].was_locked = 0)
            => dump_lock = c)
    /\ [][\A c \in CPUs :
            /\ (At(c, "cmpxchg") /\ dump_lock = c /\ dump_cpu'[c] # dump_cpu[c])
                   => /\ Depth(c) > 1
                      /\ Top(c)'.pc = "print" /\ Top(c)'.was_locked = 1
                      /\ dump_lock' = c
            /\ (At(c, "unlock") /\ Top(c).was_locked = 1 /\ dump_cpu'[c] # dump_cpu[c])
                   => dump_lock' = c
            /\ (dump_lock = c /\ dump_lock' # c)
                   => /\ dump_lock' = -1
                      /\ At(c, "unlock") /\ Top(c).was_locked = 0
                      /\ Owning(c) = {Depth(c)}]_vars

\* a nested call of the owner has returned past its unlock while the outer
\* call is still printing
C38_Witness ==
    /\ Depth(0) = 2
    /\ dump_cpu[0].calls[1].pc = "print" /\ dump_cpu[0].calls[1].was_locked = 0
    /\ Top(0).pc = "exit" /\ Top(0).was_locked = 1
    /\ dump_lock = 0

====
